---- MODULE Spec2Model ----
(***************************************************************************)
(* EndoRisk (app/main.py): the Streamlit script as a state machine.        *)
(*                                                                         *)
(* One script run is one step.  The session state (the 14 form fields and  *)
(* the stored result bundle) is the state; the artifacts on disk are read  *)
(* at every run and never written.  The offline threshold search          *)
(* (src/evaluation.py) is a separate program with its own variable.        *)
(*                                                                         *)
(* Scaled feature values and distances between scaled vectors are held in  *)
(* thousandths (0.001 is 1).                                               *)
(*                                                                         *)
(* Units.  Probabilities and confidences are held in hundredths (0.30 is   *)
(* 30, 0.05 is 5).  BMI and the two receptor percentages are held in       *)
(* tenths (29.4 is 294, 90.0 is 900).  Age and the categorical codes are   *)
(* plain integers.  Floating-point rounding is not modelled.               *)
(*                                                                         *)
(* A Python value that may be None is a record: NoneVal, Num(n) or         *)
(* Label(s), so that "is None" and dict lookups are decided as in Python.  *)
(***************************************************************************)
EXTENDS Integers, Sequences, FiniteSets, TLC

VARIABLES
    artifacts,        \* what models/*.joblib hold on disk (read-only)
    fields,           \* st.session_state[key] for the 14 form keys
    prediction_done,  \* st.session_state.prediction_done
    prob,             \* st.session_state.prob
    shap_values,      \* st.session_state.shap_values
    input_data,       \* st.session_state.input_data (the scaled vector)
    n_nan,            \* st.session_state.n_nan
    confidence,       \* st.session_state.confidence
    submitted,        \* form_submit_button's value in the last script run
    view,             \* what the last script run rendered in the results tab
    first,            \* observer: one earlier submission and what it resolved
    cohort,           \* which data/processed/preprocessed.csv is on disk
    pdp_feature,      \* the value of the PDP selectbox
    panels,           \* what the last script run rendered below the scores
    evaluation        \* find_optimal_threshold: its arguments and its result

vars == <<artifacts, fields, prediction_done, prob, shap_values, input_data,
          n_nan, confidence, submitted, view, first, cohort, pdp_feature,
          panels, evaluation>>

bundle == <<prediction_done, prob, shap_values, input_data, n_nan, confidence>>

-----------------------------------------------------------------------------
(* Python values *)

NoneVal == [none |-> TRUE]
Num(n) == [num |-> n]
Label(s) == [label |-> s]

IsNone(v) == v = NoneVal
IsNum(v) == "num" \in DOMAIN v
IsLabel(v) == "label" \in DOMAIN v

\* bool(v) for None and numbers: None and 0 are falsy.
Truthy(v) == IF IsNum(v) THEN v.num # 0 ELSE ~IsNone(v)

\* d.get(key, default) for a dict keyed by integer codes.
CodeGet(d, key, default) == IF key \in DOMAIN d THEN d[key] ELSE default

Abs(x) == IF x < 0 THEN -x ELSE x

Max(a, b) == IF a >= b THEN a ELSE b

RECURSIVE SeqSum(_)
SeqSum(s) == IF s = <<>> THEN 0 ELSE Head(s) + SeqSum(Tail(s))

-----------------------------------------------------------------------------
(* Bounds of the model *)

\* Under SpecScore the classifier's probability is drawn from
\* 0, 1/ProbSteps, ..., 1; under Spec from 0, 1/CoarseSteps, ..., 1.
ProbSteps == 10

CoarseSteps == 2

\* Each supplied field takes one of its first MaxVariant candidate values.
MaxVariant == 2

\* The threshold search is run on test sets of up to MaxSamples patients.
MaxSamples == 3

-----------------------------------------------------------------------------
(* The form: keys, widget options *)

\* init_state keys / input_fields, in the order input_fields lists them.
input_field_keys ==
    <<"edad", "imc", "grupo_riesgo", "estadiaje_pre", "histo", "grado",
      "infiltracion", "figo", "metasta", "tto_quirurgico", "tto_sistemico",
      "afect_linf", "recep_est", "recep_prog">>

FieldKeys == {input_field_keys[i] : i \in DOMAIN input_field_keys}

risk_opts ==
    <<"Risc baix", "Risc intermedi", "Risc intermedi-alt", "Risc alt", "Avançats">>
estadiaje_opts == <<"Estadi I", "Estadi II", "Estadi III i IV">>
histo_opts ==
    <<"Hiperplàsia amb atípies", "Carcinoma endometrioide", "Carcinoma serós",
      "Carcinoma de cèl·lules clares", "Carcinoma indiferenciat", "Carcinoma mixt",
      "Carcinoma escamós", "Carcinosarcoma", "Altres">>
grado_opts == <<"Grau baix (G1-G2)", "Grau alt (G3)">>
infil_opts ==
    <<"Sense infiltració", "Infiltració miometrial <50%",
      "Infiltració miometrial >50%", "Infiltració serosa">>
figo_opts ==
    <<"IA1", "IA2", "IA3", "IB", "IC", "IIA", "IIB", "IIC", "IIIA", "IIIB",
      "IIIC", "IVA", "IVB", "IVC">>
yesno_opts == <<"No", "Sí">>
sistemico_opts == <<"No realitzat", "Dosi parcial", "Dosi completa">>

\* The selectbox options of each categorical key.
WidgetOptions ==
    [grupo_riesgo |-> risk_opts, estadiaje_pre |-> estadiaje_opts,
     histo |-> histo_opts, grado |-> grado_opts, infiltracion |-> infil_opts,
     figo |-> figo_opts, metasta |-> yesno_opts, tto_quirurgico |-> yesno_opts,
     tto_sistemico |-> sistemico_opts, afect_linf |-> yesno_opts]

CategoricalKeys == DOMAIN WidgetOptions

\* The number_input range of each numeric key (BMI, receptors in tenths).
WidgetRange ==
    [edad |-> [min_value |-> 18, max_value |-> 120],
     imc |-> [min_value |-> 100, max_value |-> 600],
     recep_est |-> [min_value |-> 0, max_value |-> 1000],
     recep_prog |-> [min_value |-> 0, max_value |-> 1000]]

NumericKeys == DOMAIN WidgetRange

SeqRange(s) == {s[i] : i \in DOMAIN s}

\* A value the widget of key k can hold.
WidgetValue(k, v) ==
    \/ IsNone(v)
    \/ /\ k \in CategoricalKeys
       /\ IsLabel(v)
       /\ v.label \in SeqRange(WidgetOptions[k])
    \/ /\ k \in NumericKeys
       /\ IsNum(v)
       /\ v.num >= WidgetRange[k].min_value
       /\ v.num <= WidgetRange[k].max_value

-----------------------------------------------------------------------------
(* Submission: label -> code tables *)

RISK_INV ==
    ("Risc baix" :> 1) @@ ("Risc intermedi" :> 2) @@ ("Risc intermedi-alt" :> 3)
    @@ ("Risc alt" :> 4) @@ ("Avançats" :> 5)
GRADO_INV == ("Grau baix (G1-G2)" :> 1) @@ ("Grau alt (G3)" :> 2)
INFIL_INV ==
    ("Sense infiltració" :> 0) @@ ("Infiltració miometrial <50%" :> 1)
    @@ ("Infiltració miometrial >50%" :> 2) @@ ("Infiltració serosa" :> 3)
LINF_INV == ("No" :> 0) @@ ("Sí" :> 1)
ESTAD_INV == ("Estadi I" :> 0) @@ ("Estadi II" :> 1) @@ ("Estadi III i IV" :> 2)
SIST_INV == ("No realitzat" :> 0) @@ ("Dosi parcial" :> 1) @@ ("Dosi completa" :> 2)
FIGO_INV ==
    ("IA1" :> 1) @@ ("IA2" :> 2) @@ ("IA3" :> 3) @@ ("IB" :> 4) @@ ("IC" :> 5)
    @@ ("IIA" :> 6) @@ ("IIB" :> 7) @@ ("IIC" :> 8) @@ ("IIIA" :> 9)
    @@ ("IIIB" :> 10) @@ ("IIIC" :> 11) @@ ("IVA" :> 12) @@ ("IVB" :> 13)
    @@ ("IVC" :> 14)
QUIR_INV == ("No" :> 0) @@ ("Sí" :> 1)
HISTO_INV ==
    ("Hiperplàsia amb atípies" :> 1) @@ ("Carcinoma endometrioide" :> 2)
    @@ ("Carcinoma serós" :> 3) @@ ("Carcinoma de cèl·lules clares" :> 4)
    @@ ("Carcinoma indiferenciat" :> 5) @@ ("Carcinoma mixt" :> 6)
    @@ ("Carcinoma escamós" :> 7) @@ ("Carcinosarcoma" :> 8) @@ ("Altres" :> 9)
META_INV == ("No" :> 0) @@ ("Sí" :> 1)

-----------------------------------------------------------------------------
(* Submission: counting the empty fields *)

\* A variant of input_fields that leaves the last field out of the list.
input_fields_short(ss) ==
    [i \in 1..(Len(input_field_keys) - 1) |-> ss[input_field_keys[i]]]

\* input_fields: the 14 session values, in order.
input_fields(ss) == [i \in DOMAIN input_field_keys |-> ss[input_field_keys[i]]]

\* n_nan = sum(1 for v in input_fields if v is None)
CountNone(ss) ==
    LET vs == input_fields(ss)
    IN SeqSum([i \in DOMAIN vs |-> IF IsNone(vs[i]) THEN 1 ELSE 0])

-----------------------------------------------------------------------------
(* Submission: imputation *)

\* A resolved field: the number placed in input_dict, and whether it is the
\* fallback of the rule that produced it (fallback only records which branch
\* ran; the program does not store it).
Taken(x) == [value |-> x, fallback |-> FALSE]
Fallback(x) == [value |-> x, fallback |-> TRUE]

\* A variant of Get written as d.get(key) or default: code 0 is falsy and is
\* replaced by the default.
Get_or_default(d, key, default) ==
    IF IsLabel(key) /\ key.label \in DOMAIN d /\ d[key.label] # 0
    THEN Taken(d[key.label])
    ELSE Fallback(default)

\* d.get(st.session_state.<key>, default)
Get(d, key, default) ==
    IF IsLabel(key) /\ key.label \in DOMAIN d
    THEN Taken(d[key.label])
    ELSE Fallback(default)

\* st.session_state.<key> if st.session_state.<key> else default
OrDefault(v, default) == IF Truthy(v) THEN Taken(v.num) ELSE Fallback(default)

\* A variant of grado whose fallback depends on the session: once a prediction
\* exists the fallback is high grade.
grado_from_session(ss) ==
    IF IsLabel(ss["grado"]) /\ ss["grado"].label \in DOMAIN GRADO_INV
    THEN Taken(GRADO_INV[ss["grado"].label])
    ELSE Fallback(IF prediction_done THEN 2 ELSE 1)

\* grado = GRADO_INV.get(st.session_state.grado, 1)
grado(ss) == Get(GRADO_INV, ss["grado"], 1)

\* A variant of MEDIAN_RECEP_PROG that ignores the grade.
MEDIAN_RECEP_PROG_flat == (1 :> 900) @@ (2 :> 900)

MEDIAN_RECEP_EST == (1 :> 900) @@ (2 :> 700)
MEDIAN_RECEP_PROG == (1 :> 900) @@ (2 :> 250)

\* A variant of recep_est that tests truthiness: a supplied 0.0 is imputed.
recep_est_truthy(ss) ==
    IF Truthy(ss["recep_est"])
    THEN Taken(ss["recep_est"].num)
    ELSE Fallback(CodeGet(MEDIAN_RECEP_EST, grado(ss).value, 900))

recep_est(ss) ==
    IF ~IsNone(ss["recep_est"])
    THEN Taken(ss["recep_est"].num)
    ELSE Fallback(CodeGet(MEDIAN_RECEP_EST, grado(ss).value, 900))

recep_prog(ss) ==
    IF ~IsNone(ss["recep_prog"])
    THEN Taken(ss["recep_prog"].num)
    ELSE Fallback(CodeGet(MEDIAN_RECEP_PROG, grado(ss).value, 900))

\* The entries of the input_dict literal, keyed by dataset column name.
resolved(ss) ==
    [grupo_de_riesgo_definitivo |-> Get(RISK_INV, ss["grupo_riesgo"], 1),
     afectacion_linf |-> Get(LINF_INV, ss["afect_linf"], 0),
     estadiaje_pre_i |-> Get(ESTAD_INV, ss["estadiaje_pre"], 0),
     Tratamiento_sistemico_realizad |-> Get(SIST_INV, ss["tto_sistemico"], 0),
     grado_histologi |-> grado(ss),
     infiltracion_mi |-> Get(INFIL_INV, ss["infiltracion"], 1),
     imc |-> OrDefault(ss["imc"], 294),
     FIGO2023 |-> Get(FIGO_INV, ss["figo"], 1),
     recep_est_porcent |-> recep_est(ss),
     rece_de_Ppor |-> recep_prog(ss),
     edad |-> OrDefault(ss["edad"], 65),
     tto_1_quirugico |-> Get(QUIR_INV, ss["tto_quirurgico"], 1),
     histo_defin |-> Get(HISTO_INV, ss["histo"], 2),
     metasta_distan |-> Get(META_INV, ss["metasta"], 0)]

\* input_dict: column name -> number.
input_dict(ss) ==
    LET r == resolved(ss) IN [col \in DOMAIN r |-> r[col].value]

-----------------------------------------------------------------------------
(* Submission: confidence; results tab: banding *)

\* decision_distance = abs(prob - 0.5) * 2
decision_distance(p) == Abs(p - 50) * 2

\* nan_penalty = n_nan * 0.05
nan_penalty(n) == n * 5

\* A variant of Confidence without the clamp at zero.
Confidence_unclamped(p, n) == decision_distance(p) - nan_penalty(n)

\* confidence = max(0, decision_distance - nan_penalty)
Confidence(p, n) == Max(0, decision_distance(p) - nan_penalty(n))

\* A variant of RiskLevel whose thresholds are inclusive above.
RiskLevel_inclusive(p) ==
    IF p <= 30 THEN "Baix"
    ELSE IF p <= 60 THEN "Moderat"
    ELSE "Alt"

\* The risk semaphore of the results tab.
RiskLevel(p) ==
    IF p < 30 THEN "Baix"
    ELSE IF p < 60 THEN "Moderat"
    ELSE "Alt"

\* A variant of ConfText whose thresholds are exclusive.
ConfText_exclusive(c) ==
    IF c > 70 THEN "Alta"
    ELSE IF c > 40 THEN "Moderada"
    ELSE "Baixa"

\* The confidence band of the results tab.
ConfText(c) ==
    IF c >= 70 THEN "Alta"
    ELSE IF c >= 40 THEN "Moderada"
    ELSE "Baixa"

-----------------------------------------------------------------------------
(* Model artifacts on disk *)

\* The keys of input_dict, in the order the dict literal lists them.
input_dict_keys ==
    <<"grupo_de_riesgo_definitivo", "afectacion_linf", "estadiaje_pre_i",
      "Tratamiento_sistemico_realizad", "grado_histologi", "infiltracion_mi",
      "imc", "FIGO2023", "recep_est_porcent", "rece_de_Ppor", "edad",
      "tto_1_quirugico", "histo_defin", "metasta_distan">>

\* What the three joblib files can hold.  The fitted scaler is data on disk:
\* the model fixes one affine map per column, (x - mean_) * weight.
ArtifactsOk ==
    [loadable |-> TRUE,
     features |-> input_dict_keys,
     n_features_in_ |-> Len(input_dict_keys)]

\* A file is missing or unreadable: joblib.load raises.
ArtifactsMissing ==
    [loadable |-> FALSE, features |-> <<>>, n_features_in_ |-> 0]

\* selected_features.joblib names a column input_dict does not have.
ArtifactsAlienFeature ==
    [loadable |-> TRUE,
     features |-> [input_dict_keys EXCEPT ![Len(input_dict_keys)] = "n_total_GC"],
     n_features_in_ |-> Len(input_dict_keys)]

\* The scaler was fitted on more columns than selected_features.joblib lists.
ArtifactsScalerShape ==
    [loadable |-> TRUE,
     features |-> SubSeq(input_dict_keys, 1, Len(input_dict_keys) - 1),
     n_features_in_ |-> Len(input_dict_keys)]

\* A shorter feature list with the scaler and the classifier fitted on it.
ArtifactsSubset ==
    [loadable |-> TRUE,
     features |-> SubSeq(input_dict_keys, 1, Len(input_dict_keys) - 1),
     n_features_in_ |-> Len(input_dict_keys) - 1]

ArtifactStates ==
    {ArtifactsOk, ArtifactsMissing, ArtifactsAlienFeature, ArtifactsScalerShape}

\* A variant of model_loaded that ignores the outcome of loading.
model_loaded_unchecked == TRUE

\* try: load_model_artifacts() ... model_loaded = True / except: False
model_loaded == artifacts.loadable

SELECTED_FEATURES == artifacts.features

\* {f: input_dict[f] for f in SELECTED_FEATURES} raises KeyError.
RaisesKeyError(ss) ==
    LET d == input_dict(ss)
    IN \E i \in DOMAIN SELECTED_FEATURES : SELECTED_FEATURES[i] \notin DOMAIN d

\* scaler.transform raises ValueError on a frame of another width.
RaisesValueError == Len(SELECTED_FEATURES) # artifacts.n_features_in_

\* input_df: the row ordered as SELECTED_FEATURES.
input_df(ss) ==
    LET d == input_dict(ss)
    IN [i \in DOMAIN SELECTED_FEATURES |-> d[SELECTED_FEATURES[i]]]

\* The scaler's fitted mean per column (BMI and receptors in tenths).
scaler_mean ==
    [grupo_de_riesgo_definitivo |-> 2, afectacion_linf |-> 0,
     estadiaje_pre_i |-> 0, Tratamiento_sistemico_realizad |-> 0,
     grado_histologi |-> 1, infiltracion_mi |-> 1, imc |-> 300, FIGO2023 |-> 3,
     recep_est_porcent |-> 800, rece_de_Ppor |-> 700, edad |-> 63,
     tto_1_quirugico |-> 1, histo_defin |-> 2, metasta_distan |-> 0]

\* The scaler's fitted 1/scale_ per column, in the unit of the scaled vector.
scaler_weight ==
    [grupo_de_riesgo_definitivo |-> 8, afectacion_linf |-> 25,
     estadiaje_pre_i |-> 15, Tratamiento_sistemico_realizad |-> 15,
     grado_histologi |-> 25, infiltracion_mi |-> 12, imc |-> 2, FIGO2023 |-> 4,
     recep_est_porcent |-> 1, rece_de_Ppor |-> 1, edad |-> 1,
     tto_1_quirugico |-> 30, histo_defin |-> 6, metasta_distan |-> 40]

\* The scaler's affine map of one column.
scale_column(col, x) == (x - scaler_mean[col]) * scaler_weight[col]

\* scaler.transform(input_df), columns named as SELECTED_FEATURES.
scaler_transform(x) ==
    [i \in DOMAIN x |-> scale_column(SELECTED_FEATURES[i], x[i])]

\* model.predict_proba(...)[0][1]: the fitted classifier is data on disk; its
\* output is some probability of the grid.
Grid(steps) == {(k * 100) \div steps : k \in 0..steps}

ProbGrid == Grid(ProbSteps)

CoarseGrid == Grid(CoarseSteps)

-----------------------------------------------------------------------------
(* The background cohort on disk *)

outcome_column == "recidiva_exitus"

\* The position of a feature column in a cohort row.
ColumnIndex(col) ==
    CHOOSE i \in DOMAIN input_dict_keys : input_dict_keys[i] = col

\* One line of preprocessed.csv: the 14 feature values in the order of
\* input_dict_keys (codes, years, tenths) and the binary outcome.
CohortRow(x, y) == [x |-> x, y |-> y]

\* The feature values of a patient nobody filled anything in for.
TypicalValues == <<1, 0, 0, 0, 1, 1, 294, 1, 900, 900, 65, 1, 2, 0>>

With(x, col, v) == [x EXCEPT ![ColumnIndex(col)] = v]

AllColumns == SeqRange(input_dict_keys) \cup {outcome_column}

\* A file is held as the columns it lacks and its rows.
CohortFile(lacks, rows) == [exists |-> TRUE, lacks |-> lacks, rows |-> rows]

\* bg_data_path.exists() is false.
CohortMissing == [exists |-> FALSE, lacks |-> AllColumns, rows |-> <<>>]

\* A cohort of unlike patients.
CohortTypical ==
    CohortFile({},
        <<CohortRow(With(With(TypicalValues, "edad", 70), "imc", 250), 0),
          CohortRow(<<3, 0, 1, 2, 2, 2, 270, 9, 700, 250, 58, 1, 3, 0>>, 1),
          CohortRow(<<5, 1, 2, 1, 2, 3, 331, 12, 100, 0, 75, 0, 8, 1>>, 1),
          CohortRow(<<2, 1, 0, 0, 1, 2, 352, 4, 950, 800, 49, 1, 2, 0>>, 0)>>)

\* A cohort around TypicalValues: the same patient, one within the distance
\* threshold, one nearest, three at one distance, one farther away.
CohortNeighbours ==
    CohortFile({},
        <<CohortRow(With(TypicalValues, "edad", 68), 0),
          CohortRow(TypicalValues, 1),
          CohortRow(With(TypicalValues, "recep_est_porcent", 901), 1),
          CohortRow(With(TypicalValues, "edad", 62), 1),
          CohortRow(With(TypicalValues, "edad", 63), 0),
          CohortRow(With(TypicalValues, "rece_de_Ppor", 897), 1),
          CohortRow(With(TypicalValues, "imc", 300), 0)>>)

\* A cohort of one patient.
CohortSingle ==
    CohortFile({}, <<CohortRow(With(TypicalValues, "edad", 70), 1)>>)

\* A file without one of the feature columns.
CohortNoColumn ==
    CohortFile({"imc"}, CohortTypical.rows)

\* A file without the outcome column.
CohortNoOutcome ==
    CohortFile({outcome_column}, CohortTypical.rows)

\* The files the variable cohort can name.
CohortFiles ==
    [missing |-> CohortMissing, typical |-> CohortTypical,
     neighbours |-> CohortNeighbours, single |-> CohortSingle,
     no_column |-> CohortNoColumn, no_outcome |-> CohortNoOutcome]

CohortStates == DOMAIN CohortFiles

\* pd.read_csv(bg_data_path), when the file exists.
bg_df == CohortFiles[cohort]

\* bg_df[SELECTED_FEATURES] raises KeyError.
XbgRaises ==
    \E col \in bg_df.lacks : \E i \in DOMAIN SELECTED_FEATURES : SELECTED_FEATURES[i] = col

\* X_bg = bg_df[SELECTED_FEATURES]
X_bg ==
    [r \in DOMAIN bg_df.rows |->
        [i \in DOMAIN SELECTED_FEATURES |->
            bg_df.rows[r].x[ColumnIndex(SELECTED_FEATURES[i])]]]

\* y_bg = bg_df["recidiva_exitus"]
y_bg == [r \in DOMAIN bg_df.rows |-> bg_df.rows[r].y]

\* X_bg_scaled = scaler.transform(X_bg)
X_bg_scaled == [r \in DOMAIN X_bg |-> scaler_transform(X_bg[r])]

-----------------------------------------------------------------------------
(* Submission: the SHAP block *)

\* The positive-class attribution of column i (signed).
AttributionValues ==
    <<0, 5, 0, 6, -9, 7, 40, -6, 100, -200, 300, -300, 450, -500>>

\* Against a background of one patient most columns get no attribution at
\* all: the explainer returns exact zeros for them.
SparseAttributionValues ==
    <<0, 0, 1, 0, 0, 0, -30, 0, 0, 0, 120, 0, 0, 0>>

PositiveAttribution(n) ==
    [i \in 1..n |->
        IF Len(bg_df.rows) = 1 THEN SparseAttributionValues[i]
        ELSE AttributionValues[i]]

\* explainer.shap_values returns a list [class 0, class 1] of (1, n) arrays, or
\* one (1, n, 2) array; the class-0 values are the negated class-1 values.
ExplainerOutputs(n) ==
    {[is_list |-> b, positive |-> PositiveAttribution(n)] : b \in BOOLEAN}

\* shap_vals[1] if isinstance(shap_vals, list) else shap_vals; the stored
\* array is held flattened in C order with its shape.
StoredShap(e) ==
    IF e.is_list
    THEN [shape |-> <<1, Len(e.positive)>>, flat |-> e.positive]
    ELSE [shape |-> <<1, Len(e.positive), 2>>,
          flat |-> [j \in 1..(2 * Len(e.positive)) |->
                      IF j % 2 = 1 THEN -e.positive[(j + 1) \div 2]
                      ELSE e.positive[j \div 2]]]

\* A variant of ShapOutcomes that does not look at the background file.
ShapOutcomes_any_file(n) ==
    {NoneVal} \cup {StoredShap(e) : e \in ExplainerOutputs(n)}

\* What the SHAP block leaves in session state: None when the background file
\* is missing or anything raises, else the stored array.
ShapOutcomes(n) ==
    IF ~bg_df.exists \/ XbgRaises
    THEN {NoneVal}
    ELSE {NoneVal} \cup {StoredShap(e) : e \in ExplainerOutputs(n)}

-----------------------------------------------------------------------------
(* Results tab *)

NoResults == [tab2 |-> "warning", risk_level |-> "", conf_text |-> ""]

\* An uncaught exception stopped the script before the results tab.
Aborted == [tab2 |-> "exception", risk_level |-> "", conf_text |-> ""]

\* with tab2: the gate, the risk semaphore and the confidence indicator.
ResultsTab(done, p, c) ==
    IF ~done \/ IsNone(p)
    THEN NoResults
    ELSE [tab2 |-> "results",
          risk_level |-> RiskLevel(p.num),
          conf_text |-> IF IsNone(c) THEN "" ELSE ConfText(c.num)]

-----------------------------------------------------------------------------
(* Results tab: the panels below the scores *)

\* The feature -> {code: label} table of the PDP block, as the codes.
CATEGORICAL_FEATURES ==
    [grupo_de_riesgo_definitivo |-> {1, 2, 3, 4, 5},
     afectacion_linf |-> {0, 1},
     estadiaje_pre_i |-> {0, 1, 2},
     Tratamiento_sistemico_realizad |-> {0, 1, 2},
     grado_histologi |-> {1, 2},
     infiltracion_mi |-> {0, 1, 2, 3},
     tto_1_quirugico |-> {0, 1},
     metasta_distan |-> {0, 1}]

CONTINUOUS_FEATURES == <<"imc", "recep_est_porcent", "rece_de_Ppor", "edad">>

\* list(CATEGORICAL_FEATURES.keys()) + CONTINUOUS_FEATURES
PDP_FEATURES ==
    <<"grupo_de_riesgo_definitivo", "afectacion_linf", "estadiaje_pre_i",
      "Tratamiento_sistemico_realizad", "grado_histologi", "infiltracion_mi",
      "tto_1_quirugico", "metasta_distan">> \o CONTINUOUS_FEATURES

\* Nothing below the scores is rendered.
NotRendered == [shap |-> "", pdp |-> "", similar |-> ""]

\* A variant of Guarded without the except clause: the exception leaves the
\* block.
Guarded_unprotected(raises, shown) == IF raises THEN "exception" ELSE shown

\* try: <block> except Exception as e: st.error / st.warning
Guarded(raises, shown) == IF raises THEN "error" ELSE shown

\* The SHAP chart, or st.info when there is nothing to chart.
ShapPanel(shap, data) ==
    IF ~IsNone(shap) /\ ~IsNone(data)
    THEN Guarded(FALSE, "chart")
    ELSE "info"

\* Something in the PDP block's try raises: a missing cohort column, or
\* SELECTED_FEATURES.index(pdp_feature) on a feature that is not selected.
PdpRaises(feat) ==
    \/ XbgRaises
    \/ \A i \in DOMAIN SELECTED_FEATURES : SELECTED_FEATURES[i] # feat

\* The PDP plot, or st.warning when the cohort file is missing.
PdpPanel(feat) ==
    IF ~model_loaded
    THEN ""
    ELSE IF ~bg_df.exists
    THEN Guarded(FALSE, "warning")
    ELSE Guarded(PdpRaises(feat), "plot")

\* Something in the similar-cases block's try raises: a missing feature or
\* outcome column.
SimilarRaises == XbgRaises \/ outcome_column \in bg_df.lacks

\* The comparison table, or st.warning when there is nothing to compare.
SimilarPanel(data) ==
    IF ~(bg_df.exists /\ ~IsNone(data))
    THEN Guarded(FALSE, "warning")
    ELSE Guarded(SimilarRaises, "table")

\* with tab2, below the scores (when the gate lets the results through): the
\* three blocks in order; an exception that leaves a block stops the script,
\* and what follows is not rendered.
Panels(shown, shap, data, feat) ==
    IF ~shown
    THEN NotRendered
    ELSE LET a == ShapPanel(shap, data)
             b == PdpPanel(feat)
             c == SimilarPanel(data)
         IN IF a = "exception" THEN [NotRendered EXCEPT !.shap = a]
            ELSE IF b = "exception" THEN [NotRendered EXCEPT !.shap = a, !.pdp = b]
            ELSE [shap |-> a, pdp |-> b, similar |-> c]

-----------------------------------------------------------------------------
(* Results tab: the partial-dependence sweep *)

\* The keys of S that no other key of S is below.
Lowest(S, key) == {r \in S : \A q \in S : key[r] <= key[q]}

\* Every order of S that is ascending in key: what a sort that is not stable
\* may return, equal keys in any order.
RECURSIVE SortedOrders(_, _)
SortedOrders(S, key) ==
    IF S = {}
    THEN {<<>>}
    ELSE UNION {{<<r>> \o t : t \in SortedOrders(S \ {r}, key)} :
                    r \in Lowest(S, key)}

\* The sequence with the elements of f, each computed once.
RECURSIVE FirstOf(_, _)
FirstOf(f, n) == IF n = 0 THEN <<>> ELSE Append(FirstOf(f, n - 1), f[n])

Materialised(f) == FirstOf(f, Len(f))

\* A value that need not be whole: n / d.
Frac(n, d) == [n |-> n, d |-> d]

SameFrac(a, b) == a.n * b.d = b.n * a.d

\* The number of grid values of a continuous sweep.
GridPoints == 50

\* feat_idx = SELECTED_FEATURES.index(pdp_feature)
feat_idx(feat) ==
    CHOOSE i \in DOMAIN SELECTED_FEATURES : SELECTED_FEATURES[i] = feat

\* X_bg[col].values
ColumnValues(i) == [r \in DOMAIN X_bg |-> X_bg[r][i]]

\* A variant of X_mean that holds the other features at the patient's own
\* values.
X_mean_of_case ==
    Materialised([i \in DOMAIN SELECTED_FEATURES |->
                    Frac(input_dict(fields)[SELECTED_FEATURES[i]], 1)])

\* X_mean = X_bg.mean().values
X_mean ==
    Materialised([i \in DOMAIN SELECTED_FEATURES |->
                    Frac(SeqSum(ColumnValues(i)), Len(X_bg))])

\* sorted(keys): the one ascending order of distinct keys.
sorted(keys) == CHOOSE s \in SortedOrders(keys, [c \in keys |-> c]) : TRUE

\* feat_values.min(), feat_values.max()
ColumnMin(v) == CHOOSE x \in SeqRange(v) : \A y \in SeqRange(v) : x <= y

ColumnMax(v) == CHOOSE x \in SeqRange(v) : \A y \in SeqRange(v) : x >= y

\* A variant of linspace that leaves the stop value out.
linspace_open(start, stop, num) ==
    Materialised([k \in 1..num |->
                    Frac(num * start + (k - 1) * (stop - start), num)])

\* np.linspace(start, stop, num): num values, start and stop included.
linspace(start, stop, num) ==
    Materialised([k \in 1..num |->
                    Frac((num - 1) * start + (k - 1) * (stop - start), num - 1)])

\* categories, or grid_values
grid_values(feat) ==
    IF feat \in DOMAIN CATEGORICAL_FEATURES
    THEN LET categories == sorted(CATEGORICAL_FEATURES[feat])
         IN Materialised([k \in DOMAIN categories |-> Frac(categories[k], 1)])
    ELSE LET feat_values == Materialised(ColumnValues(feat_idx(feat)))
         IN linspace(ColumnMin(feat_values), ColumnMax(feat_values), GridPoints)

\* X_temp = np.tile(mean, (1, 1)); X_temp[0, feat_idx] = val
X_temp(mean, feat, val) == [mean EXCEPT ![feat_idx(feat)] = val]

\* The sweep: per grid value, the row the classifier is asked about.
Sweep(mean, grid, feat) ==
    Materialised([k \in DOMAIN grid |->
                    [value |-> grid[k], X_temp |-> X_temp(mean, feat, grid[k])]])

\* The sweep of the PDP block over one feature.
PdpSweep(feat) ==
    CHOOSE s \in {Sweep(mean, grid, feat) :
                    mean \in {X_mean}, grid \in {grid_values(feat)}} : TRUE

-----------------------------------------------------------------------------
(* Results tab: the SHAP chart *)

\* shap_flat: the stored array flattened, cut to n_features values or padded
\* with zeros up to n_features.
shap_flat(shap, n_features) ==
    Materialised([i \in 1..n_features |->
                    IF i <= Len(shap.flat) THEN shap.flat[i] ELSE 0])

\* shap_df["SHAP Value"].abs().max()
max_abs(flat) ==
    CHOOSE m \in {Abs(flat[i]) : i \in DOMAIN flat} :
        \A i \in DOMAIN flat : Abs(flat[i]) <= m

\* shap_df[shap_df["SHAP Value"].abs() > max_abs * 0.01]: the rows kept.
Significant(flat) ==
    {i \in DOMAIN flat : 100 * Abs(flat[i]) > max_abs(flat)}

\* A variant of head that keeps every row.
head_all(rows, n) == rows

\* .head(n)
head(rows, n) == SubSeq(rows, 1, IF Len(rows) < n THEN Len(rows) ELSE n)

\* sort_values("SHAP Value", key=abs, ascending=...): the default sort is not
\* stable, rows of equal magnitude come in any order.
sort_values(rows, flat, ascending) ==
    SortedOrders(rows, [i \in rows |-> IF ascending THEN Abs(flat[i]) ELSE -Abs(flat[i])])

\* The bars of a chart, bottom to top: the row of shap_df and its value.
Bars(rows, flat) ==
    Materialised([k \in DOMAIN rows |-> [feature |-> rows[k], value |-> flat[rows[k]]]])

\* The rows left by the filter and by .head(10) of the descending sort.
TopRows(flat) ==
    {SeqRange(head(largest_first, 10)) :
        largest_first \in sort_values(Significant(flat), flat, FALSE)}

\* Every chart the block can draw from a stored attribution: filter, the ten
\* largest, smallest first.
ShapCharts(shap) ==
    UNION {UNION {{Bars(shown, flat) : shown \in sort_values(top, flat, TRUE)} :
                top \in TopRows(flat)} :
           flat \in {shap_flat(shap, Len(SELECTED_FEATURES))}}

-----------------------------------------------------------------------------
(* Results tab, similar cases: the nearest rows of the cohort *)

\* (X_bg_scaled[r] - input_vec) ** 2, summed over the columns: the square of
\* distances[r], in millionths.
RECURSIVE SumSq(_, _, _)
SumSq(a, b, i) ==
    IF i = 0 THEN 0 ELSE (a[i] - b[i]) * (a[i] - b[i]) + SumSq(a, b, i - 1)

\* distances, squared (the square root keeps the order and the ties).
distances_sq(input_vec) ==
    [r \in DOMAIN X_bg_scaled |->
        SumSq(X_bg_scaled[r], input_vec, Len(input_vec))]

\* np.argsort(distances): kind is left at its default, which does not keep
\* equal distances in row order.
argsort(d) == SortedOrders(DOMAIN d, d)

\* A variant of NotSelf that drops only the rows at distance zero.
NotSelf_zero(d_sq) == d_sq > 0

\* distances[idx] > 0.001
NotSelf(d_sq) == d_sq > 1

\* A variant of FirstTwo that keeps every row.
FirstTwo_all(s) == s

\* [...][:2]
FirstTwo(s) == SubSeq(s, 1, IF Len(s) < 2 THEN Len(s) ELSE 2)

\* similar_idx = [idx for idx in sorted_idx if distances[idx] > 0.001][:2]
similar_idx(sorted_idx, d_sq) ==
    FirstTwo(SelectSeq(sorted_idx, LAMBDA idx : NotSelf(d_sq[idx])))

\* A variant of outcomes that reads the outcome at the column's rank.
outcomes_by_rank(similar) == [i \in DOMAIN similar |-> y_bg[i]]

\* outcomes = [y_bg.iloc[idx] for idx in similar_idx]
outcomes(similar) == [i \in DOMAIN similar |-> y_bg[similar[i]]]

\* The columns "Similar #1", "Similar #2" of the comparison table: the row of
\* the cohort, its feature values and its outcome.
SimilarColumns(similar) ==
    LET out == outcomes(similar)
    IN [i \in DOMAIN similar |->
            [idx |-> similar[i], case_data |-> X_bg[similar[i]],
             outcome |-> out[i]]]

\* Every comparison table the block can render for the stored input_data.
SimilarTables ==
    LET d_sq == distances_sq(input_data)
    IN {SimilarColumns(similar_idx(sorted_idx, d_sq)) : sorted_idx \in argsort(d_sq)}

-----------------------------------------------------------------------------
(* Sidebar import: set_state and its call sites *)

\* A cell of the uploaded dataset: NaN, a number (held in tenths) or text.
NaN == [nan |-> TRUE]
RawNum(tenths) == [raw10 |-> tenths]
RawStr(s) == [str |-> s]

IsRawNum(raw) == "raw10" \in DOMAIN raw

\* A variant of Cast that reads text that is not a number as zero.
Cast_lenient(cast_type, raw) ==
    IF ~IsRawNum(raw)
    THEN [is_valid |-> TRUE, val |-> 0]
    ELSE [is_valid |-> TRUE,
          val |-> IF cast_type = "int" THEN raw.raw10 \div 10 ELSE raw.raw10]

\* int(x) truncates toward zero; float(x) keeps the value; both raise on text
\* that is not a number.
Cast(cast_type, raw) ==
    IF ~IsRawNum(raw)
    THEN [is_valid |-> FALSE, val |-> 0]
    ELSE IF cast_type = "int"
    THEN [is_valid |-> TRUE,
          val |-> IF raw.raw10 >= 0
                  THEN raw.raw10 \div 10
                  ELSE -((-raw.raw10) \div 10)]
    ELSE [is_valid |-> TRUE, val |-> raw.raw10]

NoOptions == NoneVal
Options(list) == [list |-> list]
NoMapping == <<>>

\* A variant of set_state that does not compare the value with min_val and
\* max_val.
set_state_unclamped(row, col_name, cast_type, min_val, max_val, options, mapping) ==
    IF col_name \notin DOMAIN row THEN NoneVal
    ELSE IF row[col_name] = NaN THEN NoneVal
    ELSE
      LET c == Cast(cast_type, row[col_name])
          mapped ==
              IF DOMAIN mapping # {}
              THEN IF c.val \in DOMAIN mapping
                   THEN [is_valid |-> TRUE, val |-> Label(mapping[c.val])]
                   ELSE [is_valid |-> FALSE, val |-> NoneVal]
              ELSE [is_valid |-> TRUE, val |-> Num(c.val)]
          in_options ==
              IF mapped.is_valid /\ ~IsNone(options)
              THEN mapped.val.label \in SeqRange(options.list)
              ELSE mapped.is_valid
      IN IF c.is_valid /\ in_options THEN mapped.val ELSE NoneVal

\* set_state: the value it stores under the key (final_val).  min_val, max_val
\* are NoneVal or Num(n); options is NoOptions or Options(list); mapping is
\* NoMapping or a code -> label table.  float values are in tenths.
set_state(row, col_name, cast_type, min_val, max_val, options, mapping) ==
    IF col_name \notin DOMAIN row THEN NoneVal
    ELSE IF row[col_name] = NaN THEN NoneVal
    ELSE
      LET c == Cast(cast_type, row[col_name])
          mapped ==
              IF DOMAIN mapping # {}
              THEN IF c.val \in DOMAIN mapping
                   THEN [is_valid |-> TRUE, val |-> Label(mapping[c.val])]
                   ELSE [is_valid |-> FALSE, val |-> NoneVal]
              ELSE [is_valid |-> TRUE, val |-> Num(c.val)]
          clamped ==
              IF mapped.is_valid /\ (~IsNone(min_val) \/ ~IsNone(max_val))
              THEN LET lo == IF ~IsNone(min_val) /\ mapped.val.num < min_val.num
                             THEN min_val ELSE mapped.val
                   IN IF ~IsNone(max_val) /\ lo.num > max_val.num
                      THEN max_val ELSE lo
              ELSE mapped.val
          in_options ==
              IF mapped.is_valid /\ ~IsNone(options)
              THEN clamped.label \in SeqRange(options.list)
              ELSE mapped.is_valid
      IN IF c.is_valid /\ in_options THEN clamped ELSE NoneVal

RISK_MAPPING ==
    (1 :> "Risc baix") @@ (2 :> "Risc intermedi") @@ (3 :> "Risc intermedi-alt")
    @@ (4 :> "Risc alt") @@ (5 :> "Avançats")
GRADO_MAPPING == (1 :> "Grau baix (G1-G2)") @@ (2 :> "Grau alt (G3)")
INFILTRACION_MAPPING ==
    (0 :> "Sense infiltració") @@ (1 :> "Infiltració miometrial <50%")
    @@ (2 :> "Infiltració miometrial >50%") @@ (3 :> "Infiltració serosa")
LINF_MAPPING == (0 :> "No") @@ (1 :> "Sí")
ESTADIAJE_MAPPING == (0 :> "Estadi I") @@ (1 :> "Estadi II") @@ (2 :> "Estadi III i IV")
SISTEMICO_MAPPING == (0 :> "No realitzat") @@ (1 :> "Dosi parcial") @@ (2 :> "Dosi completa")
FIGO_MAPPING ==
    (1 :> "IA1") @@ (2 :> "IA2") @@ (3 :> "IA3") @@ (4 :> "IB") @@ (5 :> "IC")
    @@ (6 :> "IIA") @@ (7 :> "IIB") @@ (8 :> "IIC") @@ (9 :> "IIIA")
    @@ (10 :> "IIIB") @@ (11 :> "IIIC") @@ (12 :> "IVA") @@ (13 :> "IVB")
    @@ (14 :> "IVC")
QUIRURGICO_MAPPING == (0 :> "No") @@ (1 :> "Sí")
HISTO_MAPPING ==
    (1 :> "Hiperplàsia amb atípies") @@ (2 :> "Carcinoma endometrioide")
    @@ (3 :> "Carcinoma serós") @@ (4 :> "Carcinoma de cèl·lules clares")
    @@ (5 :> "Carcinoma indiferenciat") @@ (6 :> "Carcinoma mixt")
    @@ (7 :> "Carcinoma escamós") @@ (8 :> "Carcinosarcoma") @@ (9 :> "Altres")
METASTA_MAPPING == (0 :> "No") @@ (1 :> "Sí")

\* list(M.values()) of a code -> label table.
MappingValues(m) ==
    LET codes == DOMAIN m
        RECURSIVE Listed(_)
        Listed(left) ==
            IF left = {} THEN <<>>
            ELSE LET c == CHOOSE x \in left : \A y \in left : x <= y
                 IN <<m[c]>> \o Listed(left \ {c})
    IN Listed(codes)

\* The 14 set_state calls of the import button: the fields after the import.
ImportedFields(row) ==
    [edad |-> set_state(row, "edad", "int", Num(18), Num(120), NoOptions, NoMapping),
     imc |-> set_state(row, "imc", "float", Num(100), Num(600), NoOptions, NoMapping),
     recep_est |->
        set_state(row, "recep_est_porcent", "float", Num(0), Num(1000),
                  NoOptions, NoMapping),
     recep_prog |->
        set_state(row, "rece_de_Ppor", "float", Num(0), Num(1000),
                  NoOptions, NoMapping),
     grupo_riesgo |->
        set_state(row, "grupo_de_riesgo_definitivo", "int", NoneVal, NoneVal,
                  Options(MappingValues(RISK_MAPPING)), RISK_MAPPING),
     grado |->
        set_state(row, "grado_histologi", "int", NoneVal, NoneVal,
                  Options(MappingValues(GRADO_MAPPING)), GRADO_MAPPING),
     infiltracion |->
        set_state(row, "infiltracion_mi", "int", NoneVal, NoneVal,
                  Options(MappingValues(INFILTRACION_MAPPING)), INFILTRACION_MAPPING),
     afect_linf |->
        set_state(row, "afectacion_linf", "int", NoneVal, NoneVal,
                  Options(<<"No", "Sí">>), LINF_MAPPING),
     estadiaje_pre |->
        set_state(row, "estadiaje_pre_i", "int", NoneVal, NoneVal,
                  Options(MappingValues(ESTADIAJE_MAPPING)), ESTADIAJE_MAPPING),
     tto_sistemico |->
        set_state(row, "Tratamiento_sistemico_realizad", "int", NoneVal, NoneVal,
                  Options(MappingValues(SISTEMICO_MAPPING)), SISTEMICO_MAPPING),
     figo |->
        set_state(row, "FIGO2023", "int", NoneVal, NoneVal,
                  Options(MappingValues(FIGO_MAPPING)), FIGO_MAPPING),
     tto_quirurgico |->
        set_state(row, "tto_1_quirugico", "int", NoneVal, NoneVal,
                  Options(<<"No", "Sí">>), QUIRURGICO_MAPPING),
     histo |->
        set_state(row, "histo_defin", "int", NoneVal, NoneVal,
                  Options(MappingValues(HISTO_MAPPING)), HISTO_MAPPING),
     metasta |->
        set_state(row, "metasta_distan", "int", NoneVal, NoneVal,
                  Options(<<"No", "Sí">>), METASTA_MAPPING)]

\* Rows of an uploaded patient list: a complete in-range patient; a patient
\* with out-of-range numbers and codes outside the enumerations; a sheet
\* without some columns, with empty cells and with text where a number goes.
DatasetRows ==
    {[edad |-> RawNum(600), imc |-> RawNum(312), recep_est_porcent |-> RawNum(800),
      rece_de_Ppor |-> RawNum(0), grupo_de_riesgo_definitivo |-> RawNum(20),
      grado_histologi |-> RawNum(20), infiltracion_mi |-> RawNum(10),
      afectacion_linf |-> RawNum(10), estadiaje_pre_i |-> RawNum(0),
      Tratamiento_sistemico_realizad |-> RawNum(0), FIGO2023 |-> RawNum(40),
      tto_1_quirugico |-> RawNum(10), histo_defin |-> RawNum(20),
      metasta_distan |-> RawNum(0)],
     [edad |-> RawNum(1300), imc |-> RawNum(50), recep_est_porcent |-> RawNum(1500),
      rece_de_Ppor |-> RawNum(-50), grupo_de_riesgo_definitivo |-> RawNum(90),
      grado_histologi |-> RawNum(0), infiltracion_mi |-> RawNum(25),
      afectacion_linf |-> RawNum(20), estadiaje_pre_i |-> RawNum(-10),
      Tratamiento_sistemico_realizad |-> RawNum(30), FIGO2023 |-> RawNum(150),
      tto_1_quirugico |-> RawNum(0), histo_defin |-> RawNum(100),
      metasta_distan |-> RawNum(10)],
     [edad |-> RawStr("seixanta"), imc |-> NaN, recep_est_porcent |-> RawStr("alt"),
      grupo_de_riesgo_definitivo |-> RawStr("Risc alt"),
      grado_histologi |-> NaN, afectacion_linf |-> RawNum(0),
      FIGO2023 |-> RawNum(10), histo_defin |-> RawNum(85)]}

-----------------------------------------------------------------------------
(* What the user can put in the form *)

\* Candidate values of each key: what a supplied field holds, per variant.
CandidateValues ==
    [edad |-> <<Num(60), Num(18), Num(120)>>,
     imc |-> <<Num(312), Num(100), Num(600)>>,
     grupo_riesgo |-> <<Label("Risc intermedi"), Label("Avançats"), Label("Risc baix")>>,
     estadiaje_pre |-> <<Label("Estadi II"), Label("Estadi III i IV"), Label("Estadi I")>>,
     histo |-> <<Label("Carcinoma serós"), Label("Altres"), Label("Carcinoma endometrioide")>>,
     grado |-> <<Label("Grau baix (G1-G2)"), Label("Grau alt (G3)")>>,
     infiltracion |-> <<Label("Infiltració miometrial >50%"), Label("Sense infiltració"),
                        Label("Infiltració miometrial <50%")>>,
     figo |-> <<Label("IB"), Label("IVC"), Label("IA1")>>,
     metasta |-> <<Label("Sí"), Label("No")>>,
     tto_quirurgico |-> <<Label("No"), Label("Sí")>>,
     tto_sistemico |-> <<Label("Dosi completa"), Label("Dosi parcial"), Label("No realitzat")>>,
     afect_linf |-> <<Label("Sí"), Label("No")>>,
     recep_est |-> <<Num(0), Num(555), Num(1000)>>,
     recep_prog |-> <<Num(0), Num(1000), Num(125)>>]

Candidate(k, variant) ==
    CandidateValues[k][((variant - 1) % Len(CandidateValues[k])) + 1]

\* The form with exactly the keys of `supplied` filled in.
Form(supplied, variant) ==
    [k \in FieldKeys |-> IF k \in supplied THEN Candidate(k, variant) ELSE NoneVal]

\* Which fields are filled in: the first i keys, the last i keys, or the
\* three of the age / risk group / grade scenario.
FirstKeys == {{input_field_keys[j] : j \in 1..i} : i \in 0..Len(input_field_keys)}

LastKeys ==
    {{input_field_keys[j] : j \in i..Len(input_field_keys)} :
        i \in 1..Len(input_field_keys)}

SuppliedSets == FirstKeys \cup LastKeys \cup {{"edad", "grupo_riesgo", "grado"}}

PatientInputs ==
    {Form(supplied, variant) : supplied \in SuppliedSets, variant \in 1..MaxVariant}

\* Forms with 14, 13, ..., 0 empty fields.
ScoreInputs == {Form(supplied, 1) : supplied \in FirstKeys}

\* The empty form, the full form, and forms with the grade or the receptors
\* left empty.
TwiceInputs ==
    {Form(supplied, variant) :
        supplied \in {{}, {"grado"}, {"edad", "grupo_riesgo", "grado"},
                      FieldKeys \ {"recep_est", "recep_prog"}, FieldKeys},
        variant \in 1..MaxVariant}

-----------------------------------------------------------------------------
(* Results tab, similar cases: the current case's column *)

\* The label -> code tables the similar-cases block binds to the same names
\* (RISK_INV, GRADO_INV, ...) before building our_case_original.
CASE_RISK_INV ==
    ("Riesgo bajo" :> 1) @@ ("Riesgo intermedio" :> 2)
    @@ ("Riesgo intermedio-alto" :> 3) @@ ("Riesgo alto" :> 4) @@ ("Avanzados" :> 5)
CASE_GRADO_INV == ("Bajo grado (G1-G2)" :> 1) @@ ("Alto grado (G3)" :> 2)
CASE_INFIL_INV ==
    ("No infiltracion" :> 0) @@ ("Infiltracion miometrial <50%" :> 1)
    @@ ("Infiltracion miometrial >50%" :> 2) @@ ("Infiltracion serosa" :> 3)
CASE_LINF_INV == ("No" :> 0) @@ ("Si" :> 1)
CASE_ESTAD_INV == ("Estadio I" :> 0) @@ ("Estadio II" :> 1) @@ ("Estadio III y IV" :> 2)
CASE_SIST_INV == ("No realizada" :> 0) @@ ("Dosis parcial" :> 1) @@ ("Dosis completa" :> 2)
CASE_FIGO_INV ==
    ("IA1" :> 1) @@ ("IA2" :> 2) @@ ("IA3" :> 3) @@ ("IB" :> 4) @@ ("IC" :> 5)
    @@ ("IIA" :> 6) @@ ("IIB" :> 7) @@ ("IIC" :> 8) @@ ("IIIA" :> 9)
    @@ ("IIIB" :> 10) @@ ("IIIC" :> 11) @@ ("IVA" :> 12) @@ ("IVB" :> 13)
    @@ ("IVC" :> 14)
CASE_QUIR_INV == ("No" :> 0) @@ ("Si" :> 1)
CASE_HISTO_INV ==
    ("Hiperplasia con atipias" :> 1) @@ ("Carcinoma endometrioide" :> 2)
    @@ ("Carcinoma seroso" :> 3) @@ ("Carcinoma de celulas claras" :> 4)
    @@ ("Carcinoma Indiferenciado" :> 5) @@ ("Carcinoma mixto" :> 6)
    @@ ("Carcinoma escamoso" :> 7) @@ ("Carcinosarcoma" :> 8) @@ ("Otros" :> 9)
CASE_META_INV == ("No" :> 0) @@ ("Si" :> 1)

\* The entries of the our_case_original literal, read from the session fields
\* at render time.
our_case_resolved(ss) ==
    [grupo_de_riesgo_definitivo |-> Get(CASE_RISK_INV, ss["grupo_riesgo"], 1),
     afectacion_linf |-> Get(CASE_LINF_INV, ss["afect_linf"], 0),
     estadiaje_pre_i |-> Get(CASE_ESTAD_INV, ss["estadiaje_pre"], 0),
     Tratamiento_sistemico_realizad |-> Get(CASE_SIST_INV, ss["tto_sistemico"], 0),
     grado_histologi |-> Get(CASE_GRADO_INV, ss["grado"], 1),
     infiltracion_mi |-> Get(CASE_INFIL_INV, ss["infiltracion"], 1),
     imc |-> OrDefault(ss["imc"], 294),
     FIGO2023 |-> Get(CASE_FIGO_INV, ss["figo"], 1),
     recep_est_porcent |-> OrDefault(ss["recep_est"], 900),
     rece_de_Ppor |-> OrDefault(ss["recep_prog"], 900),
     edad |-> OrDefault(ss["edad"], 65),
     tto_1_quirugico |-> Get(CASE_QUIR_INV, ss["tto_quirurgico"], 1),
     histo_defin |-> Get(CASE_HISTO_INV, ss["histo"], 2),
     metasta_distan |-> Get(CASE_META_INV, ss["metasta"], 0)]

\* our_case_original: column name -> number.
our_case_original(ss) ==
    LET r == our_case_resolved(ss) IN [col \in DOMAIN r |-> r[col].value]

-----------------------------------------------------------------------------
(* Results tab: the PDF report *)

\* The rows of the report's patient-data table, in order.
display_order ==
    <<"edad", "imc", "grupo_riesgo", "estadiaje_pre", "histo", "grado",
      "infiltracion", "figo", "metasta", "tto_quirurgico", "tto_sistemico",
      "afect_linf", "recep_est", "recep_prog">>

\* The original_values literal: st.session_state.get(key) for each form key,
\* read when the results tab is rendered.
original_values(ss) == [k \in SeqRange(display_order) |-> ss[k]]

\* A variant of risk_text that prints the tier it is handed, in capitals.
risk_text_as_handed(p, risk_level) ==
    IF risk_level = "Baix" THEN "BAIX"
    ELSE IF risk_level = "Moderat" THEN "MODERAT"
    ELSE "ALT"

\* generate_pdf_report: the tier printed beside the probability.  The
\* risk_level argument is not read.
risk_text(p, risk_level) ==
    IF p < 30 THEN "BAIX"
    ELSE IF p < 60 THEN "MODERAT"
    ELSE "ALT"

\* np.array(shap_values).flatten()[:len(features)]
report_shap_flat(shap, features) ==
    Materialised(SubSeq(shap.flat, 1,
                        IF Len(shap.flat) < Len(features) THEN Len(shap.flat)
                        ELSE Len(features)))

\* The first n elements of every order of S that is ascending in key.
RECURSIVE Leading(_, _, _)
Leading(S, key, n) ==
    IF S = {} \/ n = 0
    THEN {<<>>}
    ELSE UNION {{<<r>> \o t : t \in Leading(S \ {r}, key, n - 1)} :
                    r \in Lowest(S, key)}

\* np.argsort(np.abs(shap_flat))[::-1][:5]: the five largest magnitudes,
\* largest first; the sort is not stable, equal magnitudes come in any order.
sorted_idx(flat) ==
    Leading(DOMAIN flat, [i \in DOMAIN flat |-> -Abs(flat[i])], 5)

\* "augmenta risc" if shap_val > 0 else "redueix risc"
effect(shap_val) == IF shap_val > 0 THEN "augmenta risc" ELSE "redueix risc"

\* Every list of factors the report can print for a stored attribution: one
\* line per position of sorted_idx, with the feature and the effect.
Factors(shap, features) ==
    UNION {{[k \in DOMAIN idx |->
                [feature |-> features[idx[k]], effect |-> effect(flat[idx[k]])]] :
            idx \in sorted_idx(flat)} :
           flat \in {report_shap_flat(shap, features)}}

-----------------------------------------------------------------------------
(* evaluation.py: find_optimal_threshold *)

\* np.arange(0.1, 0.9, 0.05): 0.10, 0.15, ..., 0.85, in hundredths.
thresholds == [i \in 1..16 |-> 10 + 5 * (i - 1)]

\* y_pred = (y_proba >= thresh).astype(int); a test set is a sequence of
\* patients with the classifier's probability (hundredths) and the label.
y_pred(test, thresh) ==
    Materialised([i \in DOMAIN test |-> IF test[i].proba >= thresh THEN 1 ELSE 0])

\* The patients with a given label and a given prediction.
Cell(test, pred, label, p) ==
    Cardinality({i \in DOMAIN test : test[i].label = label /\ pred[i] = p})

\* recall_score(y_test, y_pred, zero_division=0)
recall_score(test, pred) ==
    LET tp == Cell(test, pred, 1, 1)
        fn == Cell(test, pred, 1, 0)
    IN IF tp + fn = 0 THEN Frac(0, 1) ELSE Frac(tp, tp + fn)

\* precision_score(y_test, y_pred, zero_division=0)
precision_score(test, pred) ==
    LET tp == Cell(test, pred, 1, 1)
        fp == Cell(test, pred, 0, 1)
    IN IF tp + fp = 0 THEN Frac(0, 1) ELSE Frac(tp, tp + fp)

\* f1_score(y_test, y_pred, zero_division=0)
f1_score(test, pred) ==
    LET tp == Cell(test, pred, 1, 1)
        fn == Cell(test, pred, 1, 0)
        fp == Cell(test, pred, 0, 1)
    IN IF 2 * tp + fp + fn = 0 THEN Frac(0, 1) ELSE Frac(2 * tp, 2 * tp + fp + fn)

\* a >= b and a > b on values n / d with d > 0.
AtLeast(a, b) == a.n * b.d >= b.n * a.d

Above(a, b) == a.n * b.d > b.n * a.d

\* recall >= target_recall and precision >= min_precision at a threshold.
Qualifies(test, target_recall, min_precision, thresh) ==
    /\ AtLeast(recall_score(test, y_pred(test, thresh)), Frac(target_recall, 100))
    /\ AtLeast(precision_score(test, y_pred(test, thresh)), Frac(min_precision, 100))

\* The loop over thresholds from position i on, with best_threshold and
\* best_f1 as they stand.
RECURSIVE Scan(_, _, _, _, _, _)
Scan(test, target_recall, min_precision, i, best_threshold, best_f1) ==
    IF i > Len(thresholds)
    THEN best_threshold
    ELSE LET thresh == thresholds[i]
             f1 == f1_score(test, y_pred(test, thresh))
         IN IF /\ Qualifies(test, target_recall, min_precision, thresh)
               /\ Above(f1, best_f1)
            THEN Scan(test, target_recall, min_precision, i + 1, thresh, f1)
            ELSE Scan(test, target_recall, min_precision, i + 1,
                      best_threshold, best_f1)

\* roc_auc_score raises ValueError when y_test holds one class only.
OneClass(test) == \A i, j \in DOMAIN test : test[i].label = test[j].label

\* find_optimal_threshold: best_threshold starts at 0.5 and best_f1 at 0; the
\* metrics are those of evaluate_model at the threshold returned.
find_optimal_threshold(test, target_recall, min_precision) ==
    LET best == Scan(test, target_recall, min_precision, 1, 50, Frac(0, 1))
        pred == y_pred(test, best)
    IN IF OneClass(test)
       THEN [raises |-> "ValueError"]
       ELSE [best_threshold |-> best,
             recall |-> recall_score(test, pred),
             precision |-> precision_score(test, pred),
             f1 |-> f1_score(test, pred)]

\* The classifier's probabilities on the test set: below every threshold, on
\* the lowest one, between two of them, above every one.
ScoreValues == {5, 10, 52, 95}

TestSets ==
    UNION {[1..n -> [proba : ScoreValues, label : {0, 1}]] : n \in 1..MaxSamples}

\* The calls of find_optimal_threshold: the default targets and stricter or
\* looser ones.
EvaluationCalls ==
    [test : TestSets, target_recall : {50, 90}, min_precision : {10, 60},
     result : {NoneVal}]

-----------------------------------------------------------------------------
(* The state machine *)

\* Session state after the first script run: the state initialization block
\* and init_state; the results tab shows the warning.
InitOn(artifact_states, cohort_states) ==
    /\ artifacts \in artifact_states
    /\ cohort \in cohort_states
    /\ pdp_feature = PDP_FEATURES[1]
    /\ panels = NotRendered
    /\ fields = [k \in FieldKeys |-> NoneVal]
    /\ prediction_done = FALSE
    /\ prob = NoneVal
    /\ shap_values = NoneVal
    /\ input_data = NoneVal
    /\ n_nan = 0
    /\ confidence = NoneVal
    /\ submitted = FALSE
    /\ view = NoResults
    /\ first = NoneVal

\* The application; the threshold search is not running.
Init == InitOn(ArtifactStates, {"typical"}) /\ evaluation = NoneVal

\* An import that starts a new case: it also drops the stored attribution.
Import_clearing(row) ==
    /\ fields' = ImportedFields(row)
    /\ submitted' = FALSE
    /\ shap_values' = NoneVal
    /\ UNCHANGED <<artifacts, prediction_done, prob, input_data, n_nan,
                   confidence, first, cohort, pdp_feature, evaluation>>
    /\ view' = ResultsTab(prediction_done, prob, confidence)
    /\ panels' = Panels(view'.tab2 = "results", NoneVal, input_data, pdp_feature)

\* The import button: 14 set_state calls, then st.rerun() renders the page.
Import(row) ==
    /\ fields' = ImportedFields(row)
    /\ submitted' = FALSE
    /\ UNCHANGED <<artifacts, bundle, first, cohort, pdp_feature, evaluation>>
    /\ view' = ResultsTab(prediction_done, prob, confidence)
    /\ panels' = Panels(view'.tab2 = "results", shap_values, input_data, pdp_feature)

\* The observer keeps one completed submission: the form as submitted, and
\* the feature vector, count and probability stored for it.
Remember ==
    \/ first' = first
    \/ /\ first = NoneVal
       /\ view'.tab2 = "results"
       /\ first' = [fields |-> fields', input_data |-> input_data',
                    n_nan |-> n_nan', prob |-> prob']

\* The form's submit button with the form holding `input`: the widgets'
\* values are committed, then "if submitted and model_loaded:" runs the
\* pipeline, then the results tab is rendered.  The classifier's output is
\* some p of `probs`; the SHAP block leaves some outcome of ShapOutcomes.  An
\* uncaught exception stops the script run.
Submit(input, probs, observed) ==
    LET n == CountNone(input)
        raises == RaisesKeyError(input) \/ RaisesValueError
        input_scaled == scaler_transform(input_df(input))
    IN
    /\ fields' = input
    /\ submitted' = TRUE
    /\ UNCHANGED <<artifacts, cohort, pdp_feature, evaluation>>
    /\ IF ~model_loaded
       THEN /\ UNCHANGED bundle
            /\ view' = ResultsTab(prediction_done, prob, confidence)
            /\ panels' = Panels(view'.tab2 = "results", shap_values, input_data,
                                pdp_feature)
       ELSE /\ n_nan' = n
            /\ IF raises
               THEN /\ UNCHANGED <<prediction_done, prob, shap_values,
                                   input_data, confidence>>
                    /\ view' = Aborted
                    /\ panels' = NotRendered
               ELSE /\ input_data' = input_scaled
                    /\ prediction_done' = TRUE
                    /\ \E p \in probs :
                         /\ prob' = Num(p)
                         /\ confidence' = Num(Confidence(p, n))
                         /\ view' = ResultsTab(TRUE, Num(p), Num(Confidence(p, n)))
                    /\ \E shap \in ShapOutcomes(Len(SELECTED_FEATURES)) :
                         /\ shap_values' = shap
                         /\ panels' = Panels(TRUE, shap, input_data', pdp_feature)
    /\ IF observed THEN Remember ELSE UNCHANGED first

\* Any other interaction re-runs the script: nothing is stored, the page is
\* rendered again.
Rerun ==
    /\ submitted' = FALSE
    /\ view' = ResultsTab(prediction_done, prob, confidence)
    /\ panels' = Panels(view'.tab2 = "results", shap_values, input_data, pdp_feature)
    /\ UNCHANGED <<artifacts, fields, bundle, first, cohort, pdp_feature,
                   evaluation>>

\* Choosing a feature in the PDP selectbox (rendered with the results only):
\* the script runs again with that choice.
SelectPdp(feat) ==
    /\ view.tab2 = "results"
    /\ pdp_feature' = feat
    /\ submitted' = FALSE
    /\ view' = ResultsTab(prediction_done, prob, confidence)
    /\ panels' = Panels(view'.tab2 = "results", shap_values, input_data, feat)
    /\ UNCHANGED <<artifacts, fields, bundle, first, cohort, evaluation>>

\* One script run, with the form contents drawn from `inputs` (or left as
\* they are) and the classifier's outputs from `probs`.
Run(inputs, probs, observed) ==
    \/ \E row \in DatasetRows : Import(row)
    \/ \E input \in inputs \cup {fields} : Submit(input, probs, observed)
    \/ Rerun

\* Varied forms, a coarse probability grid.
Next == Run(PatientInputs, CoarseGrid, FALSE)

Spec == Init /\ [][Next]_vars

\* Forms of every degree of completeness, a fine probability grid.
NextScore == Run(ScoreInputs, ProbGrid, FALSE)

SpecScore == Init /\ [][NextScore]_vars

\* A few forms, submitted again and again under the observer.
NextTwice == Run(TwiceInputs, CoarseGrid, TRUE)

SpecTwice == Init /\ [][NextTwice]_vars

\* A few forms over every cohort file, with the PDP selectbox in use.
CohortInputs ==
    {Form({}, 1), Form({"edad", "grupo_riesgo", "grado"}, 1), Form(FieldKeys, 2)}

PdpChoices == {"grupo_de_riesgo_definitivo", "imc", "metasta_distan"}

InitCohort ==
    /\ InitOn({ArtifactsOk, ArtifactsMissing, ArtifactsSubset}, CohortStates)
    /\ evaluation = NoneVal

NextCohort ==
    \/ Run(CohortInputs, CoarseGrid, FALSE)
    \/ \E feat \in PdpChoices : SelectPdp(feat)

SpecCohort == InitCohort /\ [][NextCohort]_vars

\* The threshold search, run once on some test set; the application is idle.
InitEvaluation ==
    /\ InitOn({ArtifactsOk}, {"typical"})
    /\ evaluation \in EvaluationCalls

FindOptimalThreshold ==
    /\ evaluation.result = NoneVal
    /\ evaluation' =
          [evaluation EXCEPT !.result =
              find_optimal_threshold(evaluation.test, evaluation.target_recall,
                                     evaluation.min_precision)]
    /\ UNCHANGED <<artifacts, fields, bundle, submitted, view, first, cohort,
                   pdp_feature, panels>>

NextEvaluation == FindOptimalThreshold

SpecEvaluation == InitEvaluation /\ [][NextEvaluation]_vars

-----------------------------------------------------------------------------
(* Vocabulary of the properties *)

\* The keys left empty in a form.
Unset(ss) == {k \in FieldKeys : ss[k] = NoneVal}

\* The last script run was a submission whose pipeline ran to the end: the
\* session fields are the form as submitted.
Completed == submitted /\ view.tab2 = "results"

IndexOf(seq, x) == CHOOSE i \in DOMAIN seq : seq[i] = x

\* The dataset column each form key feeds.
ColumnOf ==
    [edad |-> "edad", imc |-> "imc", grupo_riesgo |-> "grupo_de_riesgo_definitivo",
     estadiaje_pre |-> "estadiaje_pre_i", histo |-> "histo_defin",
     grado |-> "grado_histologi", infiltracion |-> "infiltracion_mi",
     figo |-> "FIGO2023", metasta |-> "metasta_distan",
     tto_quirurgico |-> "tto_1_quirugico",
     tto_sistemico |-> "Tratamiento_sistemico_realizad",
     afect_linf |-> "afectacion_linf", recep_est |-> "recep_est_porcent",
     recep_prog |-> "rece_de_Ppor"]

\* The code of the first option of each enumeration; the options follow in
\* steps of one.
FirstCode ==
    [grupo_riesgo |-> 1, estadiaje_pre |-> 0, histo |-> 1, grado |-> 1,
     infiltracion |-> 0, figo |-> 1, metasta |-> 0, tto_quirurgico |-> 0,
     tto_sistemico |-> 0, afect_linf |-> 0]

\* The code a supplied label stands for.
OwnCode(k, v) == FirstCode[k] + IndexOf(WidgetOptions[k], v.label) - 1

\* The documented fallback of each field that has a fixed one.
DocumentedDefault ==
    [grupo_riesgo |-> 1, estadiaje_pre |-> 0, tto_sistemico |-> 0,
     infiltracion |-> 1, figo |-> 1, tto_quirurgico |-> 1, histo |-> 2,
     metasta |-> 0, afect_linf |-> 0, imc |-> 294, edad |-> 65]

\* The stored feature vector holds x in column col.
Holds(col, x) ==
    /\ col \in SeqRange(SELECTED_FEATURES)
    /\ input_data[IndexOf(SELECTED_FEATURES, col)] = scale_column(col, x)

ClampedAtZero(d) == IF d > 0 THEN d ELSE 0

-----------------------------------------------------------------------------
(* Risk tier (results tab) *)

TierRank(t) == CASE t = "Baix" -> 0 [] t = "Moderat" -> 1 [] t = "Alt" -> 2

\* C1: whenever results are shown, the tier is Baix for a probability below
\* 0.30, Moderat from 0.30 (included) to below 0.60, Alt from 0.60 (included);
\* and no higher probability is shown a lower tier.
C1_RiskTier ==
    view.tab2 = "results" =>
        /\ IsNum(prob)
        /\ prob.num < 30 => view.risk_level = "Baix"
        /\ (30 <= prob.num /\ prob.num < 60) => view.risk_level = "Moderat"
        /\ 60 <= prob.num => view.risk_level = "Alt"
        /\ \A q \in ProbGrid :
              q >= prob.num => TierRank(RiskLevel(q)) >= TierRank(view.risk_level)

\* The lower threshold itself is shown as Moderat.
C1_Witness ==
    /\ view.tab2 = "results"
    /\ prob = Num(30)
    /\ view.risk_level = "Moderat"

-----------------------------------------------------------------------------
(* Confidence *)

\* C2: after every completed prediction the stored confidence is
\* max(0, 2*|p - 0.5| - 0.05*n_imputed) and lies between 0 and 1.
C2_Confidence ==
    prediction_done =>
        /\ IsNum(confidence) /\ IsNum(prob)
        /\ confidence.num = ClampedAtZero(2 * Abs(prob.num - 50) - 5 * n_nan)
        /\ 0 <= confidence.num /\ confidence.num <= 100

\* A prediction whose penalty exceeds its decision distance: clamped to 0.
C2_Witness ==
    /\ prediction_done
    /\ n_nan = 14
    /\ prob = Num(80)
    /\ confidence = Num(0)

-----------------------------------------------------------------------------
(* Counting the imputed fields *)

\* C3: after a submission with the artifacts loaded, the recorded count is
\* the number of fields left empty, which is the number of fields whose
\* resolution took its fallback; a fully specified form records 0 and its
\* confidence is the decision distance.
C3_CountExact ==
    (submitted /\ artifacts.loadable) =>
        /\ n_nan = Cardinality(Unset(fields))
        /\ n_nan = Cardinality({col \in DOMAIN resolved(fields) :
                                    resolved(fields)[col].fallback})
        /\ (Unset(fields) = {} /\ view.tab2 = "results") =>
              /\ n_nan = 0
              /\ confidence.num = 2 * Abs(prob.num - 50)

\* A fully specified form whose oestrogen receptor percentage is 0.0.
C3_Witness ==
    /\ Completed
    /\ Unset(fields) = {}
    /\ fields["recep_est"] = Num(0)
    /\ n_nan = 0
    /\ prob = Num(100)
    /\ confidence = Num(100)

-----------------------------------------------------------------------------
(* The worked scenario: age 60, a risk group, low grade, nothing else *)

ScenarioForm ==
    [k \in FieldKeys |->
        CASE k = "edad" -> Num(60)
          [] k = "grupo_riesgo" -> Label("Risc intermedi")
          [] k = "grado" -> Label("Grau baix (G1-G2)")
          [] OTHER -> NoneVal]

ScenarioVector ==
    /\ Holds("edad", 60)
    /\ Holds("grupo_de_riesgo_definitivo", 2)
    /\ Holds("grado_histologi", 1)
    /\ Holds("imc", 294)
    /\ Holds("recep_est_porcent", 900)
    /\ Holds("rece_de_Ppor", 900)

\* C4 as stated: the scenario gives grade code 1, BMI 29.4, both receptors
\* 90.0, 12 imputed fields and a penalty of 0.60.
C4_Stated ==
    (Completed /\ fields = ScenarioForm) =>
        /\ ScenarioVector
        /\ n_nan = 12
        /\ confidence.num = ClampedAtZero(2 * Abs(prob.num - 50) - 60)

\* C4: the scenario gives grade code 1, BMI 29.4, both receptors 90.0,
\* 11 imputed fields (14 fields less the 3 supplied) and a penalty of 0.55.
C4_Scenario ==
    (Completed /\ fields = ScenarioForm) =>
        /\ ScenarioVector
        /\ n_nan = 11
        /\ confidence.num = ClampedAtZero(2 * Abs(prob.num - 50) - 55)

\* The scenario submitted with a certain prediction: confidence 1 - 0.55.
C4_Witness ==
    /\ Completed
    /\ fields = ScenarioForm
    /\ prob = Num(100)
    /\ confidence = Num(45)

-----------------------------------------------------------------------------
(* Imputation values *)

\* C5: in a completed submission an empty grade is stored as code 1, and an
\* empty receptor percentage is stored as the median of the resolved grade
\* (oestrogen 90.0 low / 70.0 high, progesterone 90.0 low / 25.0 high); a
\* supplied grade or percentage, 0.0 included, is stored as supplied.
C5_GradeThenReceptors ==
    Completed =>
        LET g == IF fields["grado"] = NoneVal THEN 1
                 ELSE OwnCode("grado", fields["grado"])
        IN /\ Holds("grado_histologi", g)
           /\ Holds("recep_est_porcent",
                    IF fields["recep_est"] = NoneVal
                    THEN (IF g = 1 THEN 900 ELSE 700)
                    ELSE fields["recep_est"].num)
           /\ Holds("rece_de_Ppor",
                    IF fields["recep_prog"] = NoneVal
                    THEN (IF g = 1 THEN 900 ELSE 250)
                    ELSE fields["recep_prog"].num)

\* High grade supplied, both receptors empty: 70.0 and 25.0 are stored.
C5_Witness ==
    /\ Completed
    /\ fields["grado"] = Label("Grau alt (G3)")
    /\ fields["recep_est"] = NoneVal
    /\ fields["recep_prog"] = NoneVal
    /\ Holds("recep_est_porcent", 700)
    /\ Holds("rece_de_Ppor", 250)

\* C6: in a completed submission every field other than grade and the
\* receptors is stored as its documented constant when empty and as its own
\* code or value when supplied.
C6_FixedDefaults ==
    Completed =>
        \A k \in DOMAIN DocumentedDefault :
            Holds(ColumnOf[k],
                  IF fields[k] = NoneVal THEN DocumentedDefault[k]
                  ELSE IF k \in CategoricalKeys THEN OwnCode(k, fields[k])
                  ELSE fields[k].num)

\* BMI empty (29.4 stored) next to a supplied option whose code is 0.
C6_Witness ==
    /\ Completed
    /\ fields["imc"] = NoneVal
    /\ fields["tto_quirurgico"] = Label("No")
    /\ Holds("imc", 294)
    /\ Holds("tto_1_quirugico", 0)

-----------------------------------------------------------------------------
(* Determinism of imputation *)

-----------------------------------------------------------------------------
(* Labels a table does not know *)

SubmitTables ==
    [grupo_riesgo |-> RISK_INV, estadiaje_pre |-> ESTAD_INV, histo |-> HISTO_INV,
     grado |-> GRADO_INV, infiltracion |-> INFIL_INV, figo |-> FIGO_INV,
     metasta |-> META_INV, tto_quirurgico |-> QUIR_INV,
     tto_sistemico |-> SIST_INV, afect_linf |-> LINF_INV]

CaseTables ==
    [grupo_riesgo |-> CASE_RISK_INV, estadiaje_pre |-> CASE_ESTAD_INV,
     histo |-> CASE_HISTO_INV, grado |-> CASE_GRADO_INV,
     infiltracion |-> CASE_INFIL_INV, figo |-> CASE_FIGO_INV,
     metasta |-> CASE_META_INV, tto_quirurgico |-> CASE_QUIR_INV,
     tto_sistemico |-> CASE_SIST_INV, afect_linf |-> CASE_LINF_INV]

UnknownTo(table, v) == IsLabel(v) /\ v.label \notin DOMAIN table

CategoricalDefault(k) == IF k = "grado" THEN 1 ELSE DocumentedDefault[k]

\* C8 as stated: in a completed submission a field whose label is unknown to
\* a table that resolves it is given the documented default by that table,
\* and the recorded count counts it together with the empty fields.
C8_UnknownLabelCounted ==
    Completed =>
        /\ \A k \in CategoricalKeys :
              /\ UnknownTo(SubmitTables[k], fields[k]) =>
                    resolved(fields)[ColumnOf[k]] = Fallback(CategoricalDefault(k))
              /\ UnknownTo(CaseTables[k], fields[k]) =>
                    our_case_resolved(fields)[ColumnOf[k]]
                        = Fallback(CategoricalDefault(k))
        /\ n_nan = Cardinality(
              Unset(fields) \cup
              {k \in CategoricalKeys :
                  \/ UnknownTo(SubmitTables[k], fields[k])
                  \/ UnknownTo(CaseTables[k], fields[k])})

-----------------------------------------------------------------------------
(* Artifacts *)

\* C9: when the artifacts cannot be loaded, no prediction is ever stored and
\* no result is ever shown, whatever is submitted.
C9_NoPredictionWithoutArtifacts ==
    ~artifacts.loadable =>
        /\ ~prediction_done
        /\ prob = NoneVal
        /\ confidence = NoneVal
        /\ view.tab2 # "results"

\* A filled form submitted while the artifacts are missing.
C9_Witness ==
    /\ ~artifacts.loadable
    /\ submitted
    /\ Unset(fields) = {}
    /\ view.tab2 = "warning"

\* C10 as stated: with a feature list naming a column that input_dict does
\* not have, the mismatch is caught at startup like a failed load: no
\* submission enters the pipeline, so none aborts in it or writes to the
\* session, and no probability or confidence is stored.
C10_MismatchFatalAtStartup ==
    (artifacts.loadable
        /\ ~(SeqRange(SELECTED_FEATURES) \subseteq SeqRange(input_dict_keys))) =>
        /\ view.tab2 # "exception"
        /\ n_nan = 0
        /\ prob = NoneVal
        /\ confidence = NoneVal

-----------------------------------------------------------------------------
(* Enrichments that fail *)

\* C11: a submission that is not stopped before the SHAP block completes
\* whatever becomes of the attribution: probability and confidence are
\* stored, prediction_done is true and the results are shown; with the
\* cohort file missing or lacking a feature column the stored attribution is
\* None, and a None attribution is rendered as "not available".
C11_AttributionMayFail ==
    (submitted /\ artifacts.loadable /\ view.tab2 # "exception") =>
        /\ prediction_done
        /\ IsNum(prob)
        /\ IsNum(confidence)
        /\ view.tab2 = "results"
        /\ (~bg_df.exists \/ bg_df.lacks \cap SeqRange(SELECTED_FEATURES) # {}) =>
              shap_values = NoneVal
        /\ shap_values = NoneVal => panels.shap = "info"

\* The cohort file is complete and the explainer raised.
C11_Witness ==
    /\ Completed
    /\ cohort = "typical"
    /\ shap_values = NoneVal
    /\ prediction_done
    /\ prob = Num(100)
    /\ panels.shap = "info"

\* C12: whenever results are shown, the PDP block and the similar-cases
\* block each end in a plot or table, a warning or a local error message,
\* never in an exception that stops the script; the tier of the stored
\* probability and the confidence band are shown; and a script run that is
\* not a submission leaves the stored bundle as it was.
C12_EnrichmentsFailLocally ==
    [][/\ view'.tab2 = "results" =>
            /\ panels'.pdp \in {"plot", "warning", "error"}
            /\ panels'.similar \in {"table", "warning", "error"}
            /\ panels'.shap \in {"chart", "info", "error"}
            /\ (bg_df'.exists /\ bg_df'.lacks \cap SeqRange(SELECTED_FEATURES') # {}) =>
                  (panels'.pdp = "error" /\ panels'.similar = "error")
            /\ ~bg_df'.exists =>
                  (panels'.pdp = "warning" /\ panels'.similar = "warning")
            /\ IsNum(prob')
            /\ view'.risk_level =
                  (IF prob'.num < 30 THEN "Baix"
                   ELSE IF prob'.num < 60 THEN "Moderat" ELSE "Alt")
            /\ view'.conf_text \in {"Alta", "Moderada", "Baixa"}
       /\ ~submitted' => UNCHANGED bundle]_vars

\* Results shown over a cohort file that lacks a feature column: both blocks
\* report their error below the scores.
C12_Witness ==
    /\ view.tab2 = "results"
    /\ cohort = "no_column"
    /\ panels.pdp = "error"
    /\ panels.similar = "error"
    /\ view.risk_level = "Alt"
    /\ ~submitted

-----------------------------------------------------------------------------
(* Similar cases *)

\* The comparison table is on screen.
TableShown == view.tab2 = "results" /\ panels.similar = "table"

\* The scaled cohort rows that are the stored query itself.
SameAsQuery == {r \in DOMAIN X_bg_scaled : X_bg_scaled[r] = input_data}

\* The square of the distance between cohort row r and the stored query,
\* column by column.
QueryDistanceSq(r) ==
    SeqSum([i \in DOMAIN input_data |->
               (X_bg_scaled[r][i] - input_data[i]) * (X_bg_scaled[r][i] - input_data[i])])

\* C13: no table the similar-cases block can render has a column for a
\* cohort row that is the query itself or lies within 0.001 of it.
C13_NeverTheQuery ==
    TableShown =>
        \A t \in SimilarTables : \A i \in DOMAIN t :
            /\ t[i].idx \notin SameAsQuery
            /\ QueryDistanceSq(t[i].idx) > 1

\* The cohort holds the query itself and a row at 0.001 of it, and the table
\* shows two other rows.
C13_Witness ==
    /\ TableShown
    /\ cohort = "neighbours"
    /\ SameAsQuery = {2}
    /\ QueryDistanceSq(3) = 1
    /\ \E t \in SimilarTables : Len(t) = 2 /\ t[1].idx = 5

\* The cohort rows farther than 0.001 from the stored query.
Eligible == {r \in DOMAIN X_bg_scaled : QueryDistanceSq(r) > 1}

\* The cohort rows a table has a column for.
RowsOf(t) == {t[i].idx : i \in DOMAIN t}

\* The columns of a table are distinct rows in ascending distance, none
\* farther than a row left out, each with the outcome and the feature values
\* the cohort file has on that row.
NearestFirst(t) ==
    /\ RowsOf(t) \subseteq Eligible
    /\ Cardinality(RowsOf(t)) = Len(t)
    /\ \A i, j \in DOMAIN t :
          i < j => QueryDistanceSq(t[i].idx) <= QueryDistanceSq(t[j].idx)
    /\ \A i \in DOMAIN t : \A r \in Eligible \ RowsOf(t) :
          QueryDistanceSq(t[i].idx) <= QueryDistanceSq(r)
    /\ \A i \in DOMAIN t :
          /\ t[i].outcome = bg_df.rows[t[i].idx].y
          /\ \A c \in DOMAIN SELECTED_FEATURES :
                t[i].case_data[c] =
                    bg_df.rows[t[i].idx].x[ColumnIndex(SELECTED_FEATURES[c])]

RowsBefore(t, i) == {t[j].idx : j \in 1..(i - 1)}

\* C15: in every table shown, a row that is as far from the query as a
\* returned row and stands earlier in the cohort is returned before it.
C15_TiesByFirstOccurrence ==
    TableShown =>
        \A t \in SimilarTables : \A i \in DOMAIN t : \A r \in Eligible :
            (/\ QueryDistanceSq(r) = QueryDistanceSq(t[i].idx)
             /\ r < t[i].idx) => r \in RowsBefore(t, i)

\* Three rows of the cohort are at one distance from the query and compete
\* for the second column.
C15_TiedRows ==
    /\ TableShown
    /\ cohort = "neighbours"
    /\ Cardinality({t[2].idx : t \in SimilarTables}) = 3

-----------------------------------------------------------------------------
(* Partial dependence *)

\* The partial-dependence plot is on screen.
PlotShown == view.tab2 = "results" /\ panels.pdp = "plot"

\* The form key that feeds a dataset column.
KeyOf(col) == CHOOSE k \in DOMAIN ColumnOf : ColumnOf[k] = col

\* The codes the enumeration of a categorical column stands for.
EnumeratedCodes(col) ==
    LET table == SubmitTables[KeyOf(col)]
    IN {table[l] : l \in DOMAIN table}

\* The values of a column in the cohort file.
FileValues(col) == {bg_df.rows[r].x[ColumnIndex(col)] : r \in DOMAIN bg_df.rows}

\* The grid of a sweep is one point per enumerated code, ascending.
OnePerCode(sweep, col) ==
    /\ Len(sweep) = Cardinality(EnumeratedCodes(col))
    /\ \A c \in EnumeratedCodes(col) :
          \E k \in DOMAIN sweep : SameFrac(sweep[k].value, Frac(c, 1))
    /\ \A k \in 1..(Len(sweep) - 1) :
          sweep[k].value.n * sweep[k + 1].value.d
              < sweep[k + 1].value.n * sweep[k].value.d

\* The grid of a sweep is 50 equally spaced values from the least to the
\* greatest value of the column in the cohort.
FiftyFromMinToMax(sweep, col) ==
    /\ Len(sweep) = 50
    /\ \A x \in FileValues(col) :
          /\ sweep[1].value.n <= x * sweep[1].value.d
          /\ sweep[50].value.n >= x * sweep[50].value.d
    /\ \E x \in FileValues(col) : SameFrac(sweep[1].value, Frac(x, 1))
    /\ \E x \in FileValues(col) : SameFrac(sweep[50].value, Frac(x, 1))
    /\ \A k \in 1..48 :
          LET a == sweep[k].value
              b == sweep[k + 1].value
              c == sweep[k + 2].value
          IN (b.n * a.d - a.n * b.d) * (c.d * b.d)
                 = (c.n * b.d - b.n * c.d) * (b.d * a.d)

\* C16: the sweep on screen has one point per enumerated code in ascending
\* order for a categorical feature, and 50 equally spaced points from the
\* cohort minimum to the cohort maximum for a continuous one; the codes
\* swept for any categorical feature are those of its enumeration.
C16_SweepGrid ==
    PlotShown =>
        \A sweep \in {PdpSweep(pdp_feature)} :
            /\ IF pdp_feature \in SeqRange(CONTINUOUS_FEATURES)
               THEN FiftyFromMinToMax(sweep, pdp_feature)
               ELSE OnePerCode(sweep, pdp_feature)
            /\ \A col \in DOMAIN CATEGORICAL_FEATURES :
                  CATEGORICAL_FEATURES[col] = EnumeratedCodes(col)

\* The sweep over BMI on a cohort whose BMI values differ.
C16_Witness ==
    /\ PlotShown
    /\ pdp_feature = "imc"
    /\ Cardinality(FileValues("imc")) > 1
    /\ Len(PdpSweep(pdp_feature)) = 50

\* The mean of a column over the rows of the cohort file.
CohortMean(col) ==
    Frac(SeqSum([r \in DOMAIN bg_df.rows |-> bg_df.rows[r].x[ColumnIndex(col)]]),
         Len(bg_df.rows))

\* The cohort means of the selected features, in their order.
CohortMeans ==
    Materialised([i \in DOMAIN SELECTED_FEATURES |-> CohortMean(SELECTED_FEATURES[i])])

\* Every row of a sweep holds the swept feature at the grid value and every
\* other feature at the given mean.
OthersAt(means, sweep, feat) ==
    \A k \in DOMAIN sweep :
        /\ Len(sweep[k].X_temp) = Len(SELECTED_FEATURES)
        /\ \A i \in DOMAIN SELECTED_FEATURES :
              IF SELECTED_FEATURES[i] = feat
              THEN sweep[k].X_temp[i] = sweep[k].value
              ELSE SameFrac(sweep[k].X_temp[i], means[i])

\* C17: whatever the form and the stored prediction, the rows of the sweep on
\* screen hold every feature but the swept one at its mean over the cohort
\* file: the sweep is a function of the cohort and the feature alone.
C17_CaseIndependent ==
    PlotShown =>
        \A sweep \in {PdpSweep(pdp_feature)} : \A means \in {CohortMeans} :
            OthersAt(means, sweep, pdp_feature)

\* A completed submission of a filled-in form whose age is not the cohort's
\* mean age, with the sweep over BMI on screen.
C17_Witness ==
    /\ PlotShown
    /\ Completed
    /\ Unset(fields) = {}
    /\ pdp_feature = "imc"
    /\ ~SameFrac(Frac(fields["edad"].num, 1), CohortMean("edad"))
    /\ \E k \in DOMAIN PdpSweep(pdp_feature) :
          SameFrac(PdpSweep(pdp_feature)[k].X_temp[feat_idx("edad")], CohortMean("edad"))

-----------------------------------------------------------------------------
(* The attribution chart *)

\* The SHAP chart is on screen.
ChartShown == view.tab2 = "results" /\ panels.shap = "chart"

\* The greatest magnitude among the values of a function.
Greatest(f) ==
    CHOOSE m \in {Abs(f[i]) : i \in DOMAIN f} : \A i \in DOMAIN f : Abs(f[i]) <= m

\* A chart has at most ten bars, of distinct features, each with a value of
\* more than 1% of the greatest magnitude of attr, smallest magnitude first.
TopTenOf(chart, attr) ==
    /\ Len(chart) <= 10
    /\ Cardinality({chart[k].feature : k \in DOMAIN chart}) = Len(chart)
    /\ \A k \in DOMAIN chart :
          /\ chart[k].feature \in DOMAIN attr
          /\ 100 * Abs(attr[chart[k].feature]) > Greatest(attr)
    /\ \A k \in 1..(Len(chart) - 1) :
          Abs(attr[chart[k].feature]) <= Abs(attr[chart[k + 1].feature])

\* C18: every chart on screen has at most ten features, each with a value
\* of more than 1% of the greatest magnitude among the values computed for
\* the features of the case, in ascending order of magnitude.
C18_TopTenAscending ==
    ChartShown =>
        \A flat \in {shap_flat(shap_values, Len(SELECTED_FEATURES))} :
            \A chart \in ShapCharts(shap_values) :
                /\ TopTenOf(chart, flat)
                /\ \A k \in DOMAIN chart : chart[k].value = flat[chart[k].feature]

\* Eleven features pass the 1% filter, two of them of one magnitude at the
\* cut, and ten are charted.
C18_Witness ==
    /\ ChartShown
    /\ Len(shap_values.flat) = Len(SELECTED_FEATURES)
    /\ Cardinality(Significant(shap_values.flat)) = 11
    /\ Cardinality(ShapCharts(shap_values)) > 1
    /\ \A chart \in ShapCharts(shap_values) : Len(chart) = 10

-----------------------------------------------------------------------------
(* Import: what is stored *)

\* The number in a cell of the dataset, in the unit of the field: whole years
\* for the age, tenths for BMI and the receptors.
CellNumber(k, raw) == IF k = "edad" THEN raw.raw10 \div 10 ELSE raw.raw10

\* The value of a range nearest to x.
Nearest(range, x) ==
    IF x < range.min_value THEN range.min_value
    ELSE IF x > range.max_value THEN range.max_value
    ELSE x

\* The cell of the dataset row that feeds a form key holds a number.
HasNumber(row, k) ==
    /\ ColumnOf[k] \in DOMAIN row
    /\ IsRawNum(row[ColumnOf[k]])
    /\ row[ColumnOf[k]].raw10 >= 0 \/ k # "edad"

\* The numeric fields ss are those of the dataset row, each brought to the
\* nearest value of its range.
NumericsClamped(row, ss) ==
    \A k \in NumericKeys :
        /\ HasNumber(row, k) =>
              ss[k] = Num(Nearest(WidgetRange[k], CellNumber(k, row[ColumnOf[k]])))
        /\ IsNum(ss[k]) =>
              /\ ss[k].num >= WidgetRange[k].min_value
              /\ ss[k].num <= WidgetRange[k].max_value

\* C19: an import stores every number of the dataset row brought to the
\* nearest bound of its range (age 18..120, BMI 10.0..60.0, receptors
\* 0..100), and every numeric field it stores lies within its range.
C19_ImportClamps ==
    [][~submitted' =>
          \A row \in DatasetRows : Import(row) => NumericsClamped(row, fields')]_vars

\* After the import of a row with age 130, BMI 5.0, estrogen 150 and
\* progesterone -5: the four bounds are stored.
C19_Witness ==
    /\ ~submitted
    /\ fields["edad"] = Num(120)
    /\ fields["imc"] = Num(100)
    /\ fields["recep_est"] = Num(1000)
    /\ fields["recep_prog"] = Num(0)
    /\ \E row \in DatasetRows :
          /\ fields = ImportedFields(row)
          /\ row["edad"] = RawNum(1300)
          /\ row["imc"] = RawNum(50)
          /\ row["recep_est_porcent"] = RawNum(1500)
          /\ row["rece_de_Ppor"] = RawNum(-50)

\* The cell of the dataset row that feeds a categorical key holds one of the
\* codes of the key's enumeration.
HoldsCode(row, k) ==
    /\ ColumnOf[k] \in DOMAIN row
    /\ IsRawNum(row[ColumnOf[k]])
    /\ \E c \in EnumeratedCodes(ColumnOf[k]) : row[ColumnOf[k]].raw10 = 10 * c

\* Every categorical field of ss is unset or one of its widget's labels.
LabelsValid(ss) ==
    \A k \in CategoricalKeys :
        ss[k] = NoneVal \/ (IsLabel(ss[k]) /\ ss[k].label \in SeqRange(WidgetOptions[k]))

\* After any import every categorical field is unset or a valid label.
ImportedLabelsValid ==
    [][~submitted' =>
          \A row \in DatasetRows : Import(row) => LabelsValid(fields')]_vars

\* C20: an import leaves unset every categorical field whose cell does not
\* hold a code of the field's enumeration, and leaves every categorical field
\* unset or with a valid label.
C20_ImportRejectsUnknownCodes ==
    [][~submitted' =>
          \A row \in DatasetRows : Import(row) =>
              /\ LabelsValid(fields')
              /\ \A k \in CategoricalKeys :
                    ~HoldsCode(row, k) => fields'[k] = NoneVal]_vars

\* After the import of a row whose histology cell is 8.5, the histology
\* field holds the label of code 8.
C20_FractionalCode ==
    /\ ~submitted
    /\ fields["histo"] = Label("Carcinosarcoma")
    /\ \E row \in DatasetRows :
          /\ fields = ImportedFields(row)
          /\ row["histo_defin"] = RawNum(85)

-----------------------------------------------------------------------------
(* Import: what is left unset *)

\* The cell that feeds a form key is absent, empty, or text where a number
\* goes.
NotANumber(row, k) ==
    \/ ColumnOf[k] \notin DOMAIN row
    \/ ~IsRawNum(row[ColumnOf[k]])

\* The cell that feeds a numeric key holds a number outside the key's range.
OutOfRange(row, k) ==
    /\ k \in NumericKeys
    /\ HasNumber(row, k)
    /\ Nearest(WidgetRange[k], CellNumber(k, row[ColumnOf[k]]))
           # CellNumber(k, row[ColumnOf[k]])

\* The cell that feeds a categorical key holds a whole number that is no
\* code of the key's enumeration.
UnknownWholeCode(row, k) ==
    /\ k \in CategoricalKeys
    /\ ~NotANumber(row, k)
    /\ row[ColumnOf[k]].raw10 % 10 = 0
    /\ ~HoldsCode(row, k)

\* A completed submission counts every empty field and stores the documented
\* constant for each empty field that has one and that the artifacts select.
EmptyFieldsImputed ==
    /\ n_nan = Cardinality(Unset(fields))
    /\ \A k \in DOMAIN DocumentedDefault :
          (fields[k] = NoneVal /\ ColumnOf[k] \in SeqRange(SELECTED_FEATURES))
              => Holds(ColumnOf[k], DocumentedDefault[k])

\* C21 as stated: an import leaves unset every field whose cell is out of
\* range or of the wrong type, without a hard error, and a submission that
\* follows imputes and counts the field.
C21_Stated ==
    [][/\ ~submitted' =>
             \A row \in DatasetRows : Import(row) =>
                 /\ view'.tab2 # "exception"
                 /\ \A k \in FieldKeys :
                       (\/ NotANumber(row, k)
                        \/ OutOfRange(row, k)
                        \/ UnknownWholeCode(row, k)) => fields'[k] = NoneVal
       /\ (submitted' /\ view'.tab2 = "results") => EmptyFieldsImputed']_vars

\* C21: an import leaves unset every field whose cell is absent, empty, text
\* where a number goes, or a whole code outside the enumeration, without a
\* hard error, and a submission that follows imputes and counts the field; a
\* number outside its range is stored (clamped) and counts as supplied.
C21_WrongTypeUnset ==
    [][/\ ~submitted' =>
             \A row \in DatasetRows : Import(row) =>
                 /\ view'.tab2 # "exception"
                 /\ \A k \in FieldKeys :
                       /\ (NotANumber(row, k) \/ UnknownWholeCode(row, k))
                             => fields'[k] = NoneVal
                       /\ OutOfRange(row, k) => fields'[k] # NoneVal
       /\ (submitted' /\ view'.tab2 = "results") => EmptyFieldsImputed']_vars

\* A sheet with text in the age cell was imported and submitted as it is:
\* the age is counted among the 11 empty fields and stored as 65.
C21_Witness ==
    /\ Completed
    /\ \E row \in DatasetRows :
          /\ row["edad"] = RawStr("seixanta")
          /\ fields = ImportedFields(row)
    /\ fields["edad"] = NoneVal
    /\ n_nan = 11
    /\ Holds("edad", 65)

-----------------------------------------------------------------------------
(* The confidence band *)

\* The bands in rising order.
BandRank == [Baixa |-> 1, Moderada |-> 2, Alta |-> 3]

\* The band the results tab would show for probability p and n empty fields.
BandOf(p, n) == ConfText(Confidence(p, n))

-----------------------------------------------------------------------------
(* The threshold search *)

\* The search has returned.
Returned == evaluation # NoneVal /\ evaluation.result # NoneVal
               /\ "best_threshold" \in DOMAIN evaluation.result

\* The scanned thresholds at which recall and precision meet the targets.
Qualifying ==
    {t \in SeqRange(thresholds) :
        Qualifies(evaluation.test, evaluation.target_recall,
                  evaluation.min_precision, t)}

\* F1 on the test set at a threshold.
F1At(t) == f1_score(evaluation.test, y_pred(evaluation.test, t))

\* The returned threshold meets both targets and is, among the qualifying
\* thresholds, the lowest of those with the highest F1.
MeetsTargets ==
    /\ AtLeast(evaluation.result.recall, Frac(evaluation.target_recall, 100))
    /\ AtLeast(evaluation.result.precision, Frac(evaluation.min_precision, 100))
    /\ evaluation.result.best_threshold \in Qualifying
    /\ \A t \in Qualifying :
          /\ AtLeast(F1At(evaluation.result.best_threshold), F1At(t))
          /\ SameFrac(F1At(evaluation.result.best_threshold), F1At(t))
                => evaluation.result.best_threshold <= t

\* C23: whatever the test set, the threshold returned by the search meets
\* the recall and precision targets and is the lowest of the qualifying
\* thresholds with the highest F1.
C23_ThresholdMeetsTargets == Returned => MeetsTargets

\* When some scanned threshold qualifies, the search returns as stated.
ThresholdWhenOneQualifies == (Returned /\ Qualifying # {}) => MeetsTargets

\* No scanned threshold qualifies and the search returns 0.5 with a recall
\* below the target.
C23_NoneQualifies ==
    /\ Returned
    /\ Qualifying = {}
    /\ evaluation.result.best_threshold = 50
    /\ ~AtLeast(evaluation.result.recall, Frac(evaluation.target_recall, 100))

-----------------------------------------------------------------------------
(* The stored result bundle *)

\* The four stored results of a prediction.
Results == <<prob, confidence, n_nan, shap_values>>

\* C24: a script run that is not a form submission (import, PDP selection,
\* re-render) leaves probability, confidence, imputed count and attribution
\* as they were; after a submission that completes, the count is that of the
\* form just submitted, the probability is a classifier output, the
\* confidence is computed from that probability and that count, and the
\* attribution is an outcome of this submission's SHAP block.
C24_BundleHeldUntilSubmission ==
    [][/\ ~submitted' => UNCHANGED Results
       /\ Completed' =>
             /\ n_nan' = Cardinality(Unset(fields'))
             /\ IsNum(prob')
             /\ confidence' = Num(Confidence(prob'.num, n_nan'))
             /\ shap_values' \in ShapOutcomes(Len(SELECTED_FEATURES))]_vars

\* Results are on screen after an import that changed the form: the stored
\* count and attribution are still those of the earlier submission.
C24_Witness ==
    /\ ~submitted
    /\ view.tab2 = "results"
    /\ n_nan # Cardinality(Unset(fields))
    /\ shap_values # NoneVal

\* The script run was a submission stopped by an uncaught exception.
Failed == submitted /\ view.tab2 = "exception"

\* C25: a submission that fails while the feature vector is assembled,
\* scaled or classified leaves probability, confidence, imputed count,
\* attribution and prediction_done as they were before it.
C25_FailedSubmissionKeepsBundle ==
    [][Failed' =>
          UNCHANGED <<prob, confidence, n_nan, shap_values, prediction_done>>]_vars

\* A failed submission leaves everything of the bundle but the count.
FailedSubmissionKeepsPrediction ==
    [][Failed' => UNCHANGED <<prob, confidence, shap_values, prediction_done>>]_vars

\* A submission has failed and the stored count is that of its form.
C25_CountOverwritten ==
    /\ Failed
    /\ ~prediction_done
    /\ n_nan = Cardinality(Unset(fields))
    /\ n_nan > 0

-----------------------------------------------------------------------------
(* The patient shown with the results *)

\* The export block is reached: the results are on screen, no block above
\* stopped the script, and a feature vector is stored.
PdfRendered ==
    view.tab2 = "results" /\ panels.similar # "" /\ ~IsNone(input_data)

\* The feature vector the classifier would be given for a form.
VectorOf(ss) == scaler_transform(input_df(ss))

\* C26: whenever the results are displayed, the field values in the report's
\* patient-data table are those the stored probability was computed from:
\* they resolve to the stored feature vector.
C26_ShownFieldsWereScored ==
    PdfRendered => VectorOf(original_values(fields)) = input_data

\* Right after a submission that completed, the table holds the submitted
\* form.
ShownFieldsWereScoredOnSubmit ==
    (PdfRendered /\ submitted) => VectorOf(original_values(fields)) = input_data

\* After an import the report pairs the earlier probability with a patient
\* whose feature vector is another one.
C26_StaleProbability ==
    /\ PdfRendered
    /\ ~submitted
    /\ IsNum(prob)
    /\ VectorOf(original_values(fields)) # input_data

-----------------------------------------------------------------------------
(* The current-case column against the feature vector *)

\* The columns on which the current-case column and input_dict differ for a
\* form.
Differing(ss) ==
    {col \in SeqRange(SELECTED_FEATURES) :
        our_case_original(ss)[col] # input_dict(ss)[col]}

\* C27: in the comparison table rendered by a submission, the current-case
\* column shows for every feature the number that the submission placed in
\* the feature vector.
C27_CurrentCaseIsVector ==
    (Completed /\ panels.similar = "table") => Differing(fields) = {}

\* The two agree on age, BMI and FIGO stage, whose resolution is written the
\* same way in both places.
CurrentCaseAgreesOnPlainFields ==
    (Completed /\ panels.similar = "table") =>
        Differing(fields) \cap {"edad", "imc", "FIGO2023"} = {}

\* A supplied oestrogen-receptor value of 0.0 is in the feature vector and
\* the current-case column shows 90.0.
C27_ZeroReceptorShownAsDefault ==
    /\ Completed
    /\ panels.similar = "table"
    /\ fields["recep_est"] = Num(0)
    /\ input_dict(fields)["recep_est_porcent"] = 0
    /\ our_case_original(fields)["recep_est_porcent"] = 900

\* Both receptors are empty with a high grade: the vector holds the medians
\* of the grade, the column 90.0 for both.
C27_GradeMedianNotShown ==
    /\ Completed
    /\ panels.similar = "table"
    /\ fields["recep_prog"] = NoneVal
    /\ input_dict(fields)["rece_de_Ppor"] = 250
    /\ our_case_original(fields)["rece_de_Ppor"] = 900

-----------------------------------------------------------------------------
(* The attribution charted for a feature *)

\* The positive-class attribution of feature i in a stored array: element
\* [0, i] of a (1, n) array, element [0, i, 1] of a (1, n, 2) array.
PositiveClassOf(shap, i) ==
    IF Len(shap.shape) = 2 THEN shap.flat[i] ELSE shap.flat[2 * i]

\* The value the chart and the report use for feature i.
Charted(i) == shap_flat(shap_values, Len(SELECTED_FEATURES))[i]

\* C28: whatever shape the explainer returned, the value charted for
\* feature i is the positive-class attribution of feature i.
C28_ChartedIsPositiveClass ==
    ChartShown =>
        \A i \in DOMAIN SELECTED_FEATURES :
            Charted(i) = PositiveClassOf(shap_values, i)

\* With the per-class list form, where the positive-class array is stored,
\* the charted values are the positive-class attributions.
ChartedIsPositiveClassOfList ==
    (ChartShown /\ Len(shap_values.shape) = 2) =>
        \A i \in DOMAIN SELECTED_FEATURES :
            Charted(i) = PositiveClassOf(shap_values, i)

\* With the single-array form the first bar carries the negative-class value
\* of the first feature and the second bar the first feature's own value.
C28_WrongFeatureAndClass ==
    /\ ChartShown
    /\ Len(shap_values.shape) = 3
    /\ PositiveClassOf(shap_values, 2) # 0
    /\ Charted(1) = -PositiveClassOf(shap_values, 1)
    /\ Charted(2) = PositiveClassOf(shap_values, 1)
    /\ Charted(2) # PositiveClassOf(shap_values, 2)

-----------------------------------------------------------------------------
(* The report's factors against the chart *)

\* The report is generated with a factors section.
FactorsPrinted == PdfRendered /\ ~IsNone(shap_values)

\* The value charted for each feature, zero for a feature the 1% filter
\* leaves out (a value that passes the filter is not zero).
OnChart ==
    LET flat == shap_flat(shap_values, Len(SELECTED_FEATURES))
        kept == Significant(flat)
    IN Materialised([i \in DOMAIN flat |-> IF i \in kept THEN flat[i] ELSE 0])

\* The position of a feature in SELECTED_FEATURES.
FeatureIndex(f) == CHOOSE i \in DOMAIN SELECTED_FEATURES : SELECTED_FEATURES[i] = f

\* A printed line names a feature of the chart and gives the direction of
\* its bar: "augmenta risc" for a positive value, "redueix risc" for a
\* negative one.
AsCharted(chart, line) ==
    /\ chart[FeatureIndex(line.feature)] # 0
    /\ line.effect = "augmenta risc" => chart[FeatureIndex(line.feature)] > 0
    /\ line.effect = "redueix risc" => chart[FeatureIndex(line.feature)] < 0

\* C29: for the stored attribution the report lists at most five factors,
\* and each of them passes the chart's 1% filter and is given the direction
\* of its value.
C29_FactorsAreCharted ==
    FactorsPrinted =>
        \A chart \in {OnChart} :
            \A factors \in Factors(shap_values, SELECTED_FEATURES) :
                /\ Len(factors) <= 5
                /\ \A k \in DOMAIN factors : AsCharted(chart, factors[k])

\* At most five factors are listed, and those of them that pass the chart's
\* filter are given the direction of their bar.
FactorsAtMostFive ==
    FactorsPrinted =>
        \A chart \in {OnChart} :
            \A factors \in Factors(shap_values, SELECTED_FEATURES) :
                /\ Len(factors) <= 5
                /\ \A k \in DOMAIN factors :
                      chart[FeatureIndex(factors[k].feature)] # 0
                          => AsCharted(chart, factors[k])

\* The report lists a feature whose attribution is zero, absent from the
\* chart, as reducing the risk.
C29_ZeroFactorListed ==
    /\ FactorsPrinted
    /\ ChartShown
    /\ \E factors \in Factors(shap_values, SELECTED_FEATURES) :
          \E k \in DOMAIN factors :
              /\ shap_flat(shap_values, Len(SELECTED_FEATURES))
                    [FeatureIndex(factors[k].feature)] = 0
              /\ factors[k].effect = "redueix risc"

-----------------------------------------------------------------------------
(* The report's tier against the screen's *)

\* The tier a printed or displayed word stands for.
TierOf ==
    [Baix |-> 1, Moderat |-> 2, Alt |-> 3, BAIX |-> 1, MODERAT |-> 2, ALT |-> 3]

\* C30: for the stored probability, the tier printed in the report is the
\* tier shown on the results screen, whatever risk_level the generator is
\* handed.
C30_ReportTierIsScreenTier ==
    PdfRendered =>
        \A risk_level \in {"Baix", "Moderat", "Alt"} :
            TierOf[risk_text(prob.num, risk_level)] = TierOf[view.risk_level]

\* A probability of exactly 0.30 is moderate on the screen and in a report
\* generated with another tier as argument.
C30_Witness ==
    /\ PdfRendered
    /\ prob = Num(30)
    /\ view.risk_level = "Moderat"
    /\ risk_text(prob.num, "Baix") = "MODERAT"

====
